---- MODULE Spec2Model ----
(***************************************************************************)
(* A model of the 2-D search toolkit of adventofcode2024:                  *)
(*   - breadth_first_search, the generic driver of src/libs/graph.rs,      *)
(*     run against arbitrary caller callbacks (specification SpecBFS);     *)
(*   - the priority search of day 16 (find_shortest_path_weight and        *)
(*     find_all_shortest_paths) over small mazes (specification SpecMaze); *)
(*   - the priority-search loop with unit costs next to the breadth-first  *)
(*     loop of day 18 (specification SpecUniform).                         *)
(* One loop iteration of the source is one action.                         *)
(***************************************************************************)
EXTENDS Integers, Sequences, FiniteSets, TLC

VARIABLES
    queue,      \* the frontier: VecDeque<T> (a sequence) or PriorityQueue (item -> cost)
    visited,    \* the visitor's store: the set of keys whose cell is true
    result,     \* Option<R>: None or Some(r)
    pc,         \* where the running function is
    initial,    \* the queue the caller handed to breadth_first_search
    trace,      \* every call the driver has made so far, in order
    maze,       \* day 16: the Array2<Maze> and its maximum coordinates
    start,      \* day 16 / day 18: the start point
    path_stat,  \* day 16: which statistic run() was asked for
    visited_path,       \* day 16: Array3 of (predecessor set, best cost)
    on_shortest_path,   \* day 16: the cells collected by the backward walk
    path_queue,         \* day 16: the backward walk's VecDeque
    answer,     \* what the function returned
    proposed,   \* day 16: every (target, predecessor, cost) offered to visited_path so far
    hops,       \* day 18: shortest_path's queue, visited table and result
    backend,    \* visitors: which impl Visitor the store belongs to
    visitor,    \* visitors: the store (Array3, Array2, Vec or hash set)
    call_log,   \* visitors: every visit / has_visited call so far, with its answer
    planar_kind,    \* coordinates: which impl PlanarCoordinate ("BoundedPoint" or "Pair")
    coordinate,     \* coordinates: the point the caller holds
    last_call,      \* coordinates: the last operation, its arguments and what it returned
    iterator,       \* neighbour sequences: the iterator struct
    yielded,        \* neighbour sequences: the items next() has returned (the last
                    \* one only, for the walking and jumping iterators)
    tick,           \* neighbour sequences: the parity of the number of next() calls
    heading,        \* directions: the direction value held, with its type
    turn_log,       \* directions: the Direction methods applied to it so far
    shortcuts,      \* day 20: the locals of shortest_path_full and best_shortcuts
    patrol          \* day 6: the locals of run

bfsVars == <<initial, trace>>
mazeVars == <<maze, start, path_stat, visited_path, on_shortest_path, path_queue,
              answer, proposed>>
vars == <<queue, visited, result, pc, initial, trace, maze, start, path_stat,
          visited_path, on_shortest_path, path_queue, answer, proposed, hops,
          backend, visitor, call_log, planar_kind, coordinate, last_call,
          iterator, yielded, tick, heading, turn_log, shortcuts, patrol>>
visitorVars == <<backend, visitor, call_log>>
planarVars == <<planar_kind, coordinate, last_call>>
iterVars == <<iterator, yielded, tick>>
dirVars == <<heading, turn_log>>
dayVars == <<shortcuts, patrol>>
toolVars == <<visitorVars, planarVars, iterVars, dirVars, dayVars>>

\* The value of the variables a specification does not use.
Idle == <<>>
MazeIdle ==
    /\ maze = Idle /\ start = Idle /\ path_stat = Idle /\ visited_path = Idle
    /\ on_shortest_path = Idle /\ path_queue = Idle /\ answer = Idle /\ proposed = Idle
VisitorIdle == backend = Idle /\ visitor = Idle /\ call_log = Idle
PlanarIdle == planar_kind = Idle /\ coordinate = Idle /\ last_call = Idle
IterIdle == iterator = Idle /\ yielded = Idle /\ tick = Idle
DirIdle == heading = Idle /\ turn_log = Idle
DayIdle == shortcuts = Idle /\ patrol = Idle
ToolIdle == VisitorIdle /\ PlanarIdle /\ IterIdle /\ DirIdle /\ DayIdle

None == <<"None">>
Some(v) == <<"Some", v>>

----------------------------------------------------------------------------
(* Bounds of the breadth-first model.  A state is its own visitor key.      *)

NumKeys == 2
Keys == 0 .. (NumKeys - 1)

\* What a caller's get_adjacent may yield for one state, and what a caller
\* may hand over as the initial queue: no, one or two states, repeats allowed.
AdjacentLists == {<<>>} \cup {<<a>> : a \in Keys} \cup {<<a, b>> : a \in Keys, b \in Keys}

\* The values a caller's first_visit or on_repeat_visit may return inside Some.
StopValues == {"r1", "r2"}

----------------------------------------------------------------------------
(* Visitor<T> for AHashSet<T>                                               *)

visit_mark_nothing(store, key) == [was |-> key \in store, store |-> store]

\* visit: mark the key seen, answer whether it was seen before.
visit(store, key) == [was |-> key \in store, store |-> store \cup {key}]

has_visited_negated(store, key) == key \notin store

has_visited(store, key) == key \in store

----------------------------------------------------------------------------
(* breadth_first_search                                                     *)

Call(op, a, b) == [op |-> op, a |-> a, b |-> b]

Is(call, op, a, b) == call.op = op /\ call.a = a /\ call.b = b

push_front(q, adjacent) == <<adjacent>> \o q

\* VecDeque::push_back
push_back(q, adjacent) == Append(q, adjacent)

RECURSIVE for_each_adjacent_no_insert(_, _, _, _)
for_each_adjacent_no_insert(value, adjacent, store, acc) ==
    IF adjacent = <<>> THEN acc
    ELSE LET n == Head(adjacent)
             seen == has_visited(store, n)
             next == IF seen
                     THEN [queue |-> acc.queue,
                           calls |-> Append(acc.calls, Call("has_visited", n, TRUE))]
                     ELSE [queue |-> push_back(acc.queue, n),
                           calls |-> acc.calls \o <<Call("has_visited", n, FALSE),
                                                    Call("push_back", n, n)>>]
         IN  for_each_adjacent_no_insert(value, Tail(adjacent), store, next)

\* .filter(|adjacent| !visitor.has_visited(adjacent)).for_each(on_insert; push_back):
\* the iterator is lazy, so each neighbour is tested and handled before the next.
RECURSIVE for_each_adjacent(_, _, _, _)
for_each_adjacent(value, adjacent, store, acc) ==
    IF adjacent = <<>> THEN acc
    ELSE LET n == Head(adjacent)
             seen == has_visited(store, n)
             next == IF seen
                     THEN [queue |-> acc.queue,
                           calls |-> Append(acc.calls, Call("has_visited", n, TRUE))]
                     ELSE [queue |-> push_back(acc.queue, n),
                           calls |-> acc.calls \o <<Call("has_visited", n, FALSE),
                                                    Call("on_insert", value, n),
                                                    Call("push_back", n, n)>>]
         IN  for_each_adjacent(value, Tail(adjacent), store, next)

BfsInit ==
    /\ initial \in AdjacentLists
    /\ queue = initial
    /\ visited = {}
    /\ result = None
    /\ pc = "loop"
    /\ trace = <<>>
    /\ MazeIdle /\ hops = Idle /\ ToolIdle

\* The head of every iteration: pop_front and visitor.visit.
Dequeued == [value |-> Head(queue),
             seen  |-> visit(visited, Head(queue)),
             calls |-> <<Call("pop_front", Head(queue), Head(queue)),
                         Call("visit", Head(queue), visit(visited, Head(queue)).was)>>]

\* A driver that swallows the value on_repeat_visit returned.
OnRepeatVisitDropsValue ==
    /\ pc = "loop" /\ queue # <<>>
    /\ Dequeued.seen.was
    /\ \E r \in StopValues :
         trace' = trace \o Dequeued.calls
                     \o <<Call("on_repeat_visit", Dequeued.value, Some(r)),
                          Call("return", Dequeued.value, None)>>
    /\ result' = None
    /\ queue' = Tail(queue)
    /\ visited' = Dequeued.seen.store
    /\ pc' = "returned"
    /\ UNCHANGED <<initial, mazeVars, hops, toolVars>>

\* visit returned true and on_repeat_visit returned Some: return r.
OnRepeatVisitReturn ==
    /\ pc = "loop" /\ queue # <<>>
    /\ Dequeued.seen.was
    /\ \E r \in StopValues :
         /\ result' = Some(r)
         /\ trace' = trace \o Dequeued.calls
                        \o <<Call("on_repeat_visit", Dequeued.value, Some(r)),
                             Call("return", Dequeued.value, Some(r))>>
    /\ queue' = Tail(queue)
    /\ visited' = Dequeued.seen.store
    /\ pc' = "returned"
    /\ UNCHANGED <<initial, mazeVars, hops, toolVars>>

\* visit returned true and on_repeat_visit returned None: continue.
OnRepeatVisitContinue ==
    /\ pc = "loop" /\ queue # <<>>
    /\ Dequeued.seen.was
    /\ trace' = trace \o Dequeued.calls
                   \o <<Call("on_repeat_visit", Dequeued.value, None)>>
    /\ queue' = Tail(queue)
    /\ visited' = Dequeued.seen.store
    /\ UNCHANGED <<result, pc, initial, mazeVars, hops, toolVars>>

\* A driver that calls first_visit but expands the state whatever it returned.
FirstVisitIgnored ==
    /\ pc = "loop" /\ queue # <<>>
    /\ ~Dequeued.seen.was
    /\ \E r \in StopValues : \E adjacent \in AdjacentLists :
         LET head == Dequeued.calls
                       \o <<Call("first_visit", Dequeued.value, Some(r)),
                            Call("get_adjacent", Dequeued.value, adjacent)>>
             done == for_each_adjacent(Dequeued.value, adjacent, Dequeued.seen.store,
                                       [queue |-> Tail(queue), calls |-> <<>>])
         IN  /\ queue' = done.queue
             /\ trace' = trace \o head \o done.calls
    /\ visited' = Dequeued.seen.store
    /\ UNCHANGED <<result, pc, initial, mazeVars, hops, toolVars>>

\* visit returned false and first_visit returned Some: return stop.
FirstVisitReturn ==
    /\ pc = "loop" /\ queue # <<>>
    /\ ~Dequeued.seen.was
    /\ \E r \in StopValues :
         /\ result' = Some(r)
         /\ trace' = trace \o Dequeued.calls
                        \o <<Call("first_visit", Dequeued.value, Some(r)),
                             Call("return", Dequeued.value, Some(r))>>
    /\ queue' = Tail(queue)
    /\ visited' = Dequeued.seen.store
    /\ pc' = "returned"
    /\ UNCHANGED <<initial, mazeVars, hops, toolVars>>

\* visit returned false, first_visit returned None: generate the neighbours.
ExpandState ==
    /\ pc = "loop" /\ queue # <<>>
    /\ ~Dequeued.seen.was
    /\ \E adjacent \in AdjacentLists :
         LET head == Dequeued.calls
                       \o <<Call("first_visit", Dequeued.value, None),
                            Call("get_adjacent", Dequeued.value, adjacent)>>
             done == for_each_adjacent(Dequeued.value, adjacent, Dequeued.seen.store,
                                       [queue |-> Tail(queue), calls |-> <<>>])
         IN  /\ queue' = done.queue
             /\ trace' = trace \o head \o done.calls
    /\ visited' = Dequeued.seen.store
    /\ UNCHANGED <<result, pc, initial, mazeVars, hops, toolVars>>

\* while let Some(value) = queue.pop_front() fails: fall through to None.
QueueEmpty ==
    /\ pc = "loop" /\ queue = <<>>
    /\ result' = None
    /\ pc' = "returned"
    /\ trace' = Append(trace, Call("return", -1, None))     \* -1: no state in hand
    /\ UNCHANGED <<queue, visited, initial, mazeVars, hops, toolVars>>

BfsNext ==
    \/ OnRepeatVisitReturn
    \/ OnRepeatVisitContinue
    \/ FirstVisitReturn
    \/ ExpandState
    \/ QueueEmpty

SpecBFS == BfsInit /\ [][BfsNext]_vars

----------------------------------------------------------------------------
(* Reading the trace of breadth_first_search                                *)

Ops(op) == {i \in DOMAIN trace : trace[i].op = op}

\* The keys the visitor had marked before call i was made.
VisitedBefore(i) == {trace[j].a : j \in {j \in Ops("visit") : j < i}}

\* The calls of the iteration that starts with the pop_front at i.
IterationAfter(i) ==
    LET later == {j \in Ops("pop_front") \cup Ops("return") : j > i}
        stop  == IF later = {} THEN Len(trace) + 1
                 ELSE CHOOSE j \in later : \A l \in later : j <= l
    IN  {trace[j].op : j \in (i + 1) .. (stop - 1)}

ExpansionOps == {"first_visit", "get_adjacent", "has_visited", "on_insert", "push_back"}

RECURSIVE Flatten(_)
Flatten(seqs) == IF seqs = <<>> THEN <<>> ELSE Head(seqs) \o Flatten(Tail(seqs))

RECURSIVE SortedSeq(_)
SortedSeq(S) == IF S = {} THEN <<>>
                ELSE LET m == CHOOSE x \in S : \A y \in S : x <= y
                     IN  <<m>> \o SortedSeq(S \ {m})

\* The adjacency the get_adjacent callback has answered so far.
Yielded(k) == UNION {{trace[i].b[n] : n \in DOMAIN trace[i].b} :
                       i \in {i \in Ops("get_adjacent") : trace[i].a = k}}

RECURSIVE Closure(_)
Closure(S) == LET T == S \cup UNION {Yielded(k) : k \in S}
              IN  IF T = S THEN S ELSE Closure(T)

\* The keys reachable from the initial queue through get_adjacent.
Reachable == Closure({initial[n] : n \in DOMAIN initial})

StopCalls == {i \in Ops("first_visit") \cup Ops("on_repeat_visit") : trace[i].b # None}

----------------------------------------------------------------------------
(* C1: a state is expanded at most once: first_visit and get_adjacent are    *)
(* called for a key only in the iteration of the first pop_front of that     *)
(* key; every later pop_front of an equal key goes to on_repeat_visit and    *)
(* generates no neighbours.                                                   *)
C1_ExpandedAtMostOnce ==
    /\ \A k \in Keys :
         /\ Cardinality({i \in Ops("first_visit") : trace[i].a = k}) <= 1
         /\ Cardinality({i \in Ops("get_adjacent") : trace[i].a = k}) <= 1
    /\ \A i \in Ops("pop_front") :
         LET again == \E j \in Ops("pop_front") : j < i /\ trace[j].a = trace[i].a
         IN  IF again
             THEN /\ "on_repeat_visit" \in IterationAfter(i)
                  /\ IterationAfter(i) \cap ExpansionOps = {}
             ELSE /\ "first_visit" \in IterationAfter(i)
                  /\ "on_repeat_visit" \notin IterationAfter(i)

\* A key was dequeued a second time after it had been expanded.
C1_Witness ==
    \E i \in Ops("pop_front") : \E j \in Ops("get_adjacent") :
        /\ j < i /\ trace[j].a = trace[i].a
        /\ "on_repeat_visit" \in IterationAfter(i)

(* C2: when the search runs to an empty queue and no callback stops it, the  *)
(* keys marked visited are exactly the keys reachable from the initial queue *)
(* through get_adjacent, each expanded exactly once, and no other key is     *)
(* marked or expanded.                                                        *)
C2_VisitedIsReachable ==
    (pc = "returned" /\ result = None) =>
        /\ visited = Reachable
        /\ \A k \in Keys :
             Cardinality({i \in Ops("get_adjacent") : trace[i].a = k})
                = IF k \in Reachable THEN 1 ELSE 0

\* A full exploration that followed an edge, dequeued some key twice and left
\* another key unreachable.
C2_Witness ==
    /\ pc = "returned" /\ result = None
    /\ visited # {} /\ visited # Keys
    /\ Ops("on_repeat_visit") # {}
    /\ Ops("has_visited") # {}

(* C3: when first_visit or on_repeat_visit returns a value the search        *)
(* returns exactly that value at once: the return is the next call, nothing  *)
(* follows it; when on_repeat_visit returns nothing the state is skipped and *)
(* the loop goes on with the next pop_front.                                  *)
C3_StopReturnsAtOnce ==
    /\ \A i \in StopCalls :
         /\ i + 1 = Len(trace)
         /\ Is(trace[i + 1], "return", trace[i].a, trace[i].b)
         /\ result = trace[i].b
         /\ pc = "returned"
    /\ \A i \in Ops("on_repeat_visit") :
         trace[i].b = None =>
            IF i = Len(trace) THEN pc = "loop" /\ result = None
            ELSE trace[i + 1].op \in {"pop_front", "return"}
    /\ (result # None) => StopCalls # {}

\* first_visit stopped a search that had already skipped a repeated state.
C3_Witness ==
    /\ \E i \in Ops("first_visit") : trace[i].b # None
    /\ \E i \in Ops("on_repeat_visit") : trace[i].b = None
    /\ pc = "returned"

(* C4: in the expansion of a state s, the visitor is asked about every       *)
(* neighbour get_adjacent yielded, in order; for each one it does not report *)
(* as visited, on_insert(s, n) is called once and n is pushed right after    *)
(* it; for a neighbour reported visited neither happens.                      *)
C4_OnInsertBeforeEveryPush ==
    /\ \A j \in Ops("has_visited") :
         LET parent == trace[CHOOSE i \in Ops("get_adjacent") :
                               i < j /\ \A l \in Ops("get_adjacent") : l < j => l <= i].a
         IN  /\ trace[j].b = (trace[j].a \in VisitedBefore(j))
             /\ IF trace[j].b
                THEN j = Len(trace)
                     \/ trace[j + 1].op \in {"has_visited", "pop_front", "return"}
                ELSE /\ j + 2 <= Len(trace)
                     /\ Is(trace[j + 1], "on_insert", parent, trace[j].a)
                     /\ Is(trace[j + 2], "push_back", trace[j].a, trace[j].a)
    /\ \A j \in Ops("on_insert") : Is(trace[j - 1], "has_visited", trace[j].b, FALSE)
    /\ \A j \in Ops("push_back") : trace[j - 1].op = "on_insert" /\ trace[j - 1].b = trace[j].a
    /\ \A i \in Ops("get_adjacent") :
         LET later == {j \in Ops("pop_front") \cup Ops("return") : j > i}
             stop  == IF later = {} THEN Len(trace) + 1
                      ELSE CHOOSE j \in later : \A l \in later : j <= l
             asked == SortedSeq({j \in Ops("has_visited") : i < j /\ j < stop})
         IN  [n \in DOMAIN asked |-> trace[asked[n]].a] = trace[i].b

\* One expansion yielded the same unvisited neighbour twice (two on_insert
\* calls) and another yielded a neighbour that was already visited.
C4_Witness ==
    /\ \E j \in Ops("on_insert") :
         j + 3 <= Len(trace) /\ Is(trace[j + 3], "on_insert", trace[j].a, trace[j].b)
    /\ \E j \in Ops("has_visited") : trace[j].b

\* The order in which states were enqueued, read off the callbacks' answers:
\* the initial queue, then for each expansion the yielded neighbours that
\* were not visited then, in the order yielded.
EnqueueOrder ==
    LET calls == SortedSeq(Ops("get_adjacent"))
    IN  initial \o Flatten([n \in DOMAIN calls |->
            SelectSeq(trace[calls[n]].b,
                      LAMBDA k : k \notin VisitedBefore(calls[n]))])

DequeueOrder ==
    LET calls == SortedSeq(Ops("pop_front"))
    IN  [n \in DOMAIN calls |-> trace[calls[n]].a]

C6_TerminatesNoneOnEmpty ==
    /\ <>(pc = "returned")
    /\ [](pc = "returned" =>
            /\ (result = None) <=> (StopCalls = {})
            /\ (result = None) <=> (queue = <<>> /\ trace[Len(trace)].a = -1))

\* The queue emptied after an expansion and a repeat visit and None was returned.
C6_Witness ==
    /\ pc = "returned" /\ result = None
    /\ Ops("get_adjacent") # {} /\ Ops("on_repeat_visit") # {}

FairSpecBFS == SpecBFS /\ WF_vars(BfsNext)

----------------------------------------------------------------------------
(* BoundedPoint and CardinalDirection (src/libs/graph.rs)                   *)

BoundedPoint(x, y, mx, my) == [x |-> x, y |-> y, max_x |-> mx, max_y |-> my]

\* CARDINAL_DIRECTIONS, in the order of the constant.
CARDINAL_DIRECTIONS == <<"Down", "Left", "Right", "Up">>
CardinalDirection == {"Up", "Down", "Left", "Right"}

\* A neighbour test that lets Down and Right step onto the line past the maximum.
get_adjacent_past_max(self, point_direction) ==
    CASE point_direction = "Up" ->
           IF self.y > 0 THEN Some([self EXCEPT !.y = self.y - 1]) ELSE None
      [] point_direction = "Down" ->
           IF self.y <= self.max_y THEN Some([self EXCEPT !.y = self.y + 1]) ELSE None
      [] point_direction = "Left" ->
           IF self.x > 0 THEN Some([self EXCEPT !.x = self.x - 1]) ELSE None
      [] point_direction = "Right" ->
           IF self.x <= self.max_x THEN Some([self EXCEPT !.x = self.x + 1]) ELSE None
      [] OTHER -> None

\* BoundedPoint::get_adjacent: the neighbour, or None past 0 or the maximum.
get_adjacent(self, point_direction) ==
    CASE point_direction = "Up" ->
           IF self.y > 0 THEN Some([self EXCEPT !.y = self.y - 1]) ELSE None
      [] point_direction = "Down" ->
           IF self.y < self.max_y THEN Some([self EXCEPT !.y = self.y + 1]) ELSE None
      [] point_direction = "Left" ->
           IF self.x > 0 THEN Some([self EXCEPT !.x = self.x - 1]) ELSE None
      [] point_direction = "Right" ->
           IF self.x < self.max_x THEN Some([self EXCEPT !.x = self.x + 1]) ELSE None
      [] point_direction = "UpRight" ->
           IF self.y > 0 /\ self.x < self.max_x
           THEN Some([self EXCEPT !.x = self.x + 1, !.y = self.y - 1]) ELSE None
      [] point_direction = "UpLeft" ->
           IF self.y > 0 /\ self.x > 0
           THEN Some([self EXCEPT !.x = self.x - 1, !.y = self.y - 1]) ELSE None
      [] point_direction = "DownRight" ->
           IF self.y < self.max_y /\ self.x < self.max_x
           THEN Some([self EXCEPT !.x = self.x + 1, !.y = self.y + 1]) ELSE None
      [] point_direction = "DownLeft" ->
           IF self.y < self.max_y /\ self.x > 0
           THEN Some([self EXCEPT !.x = self.x - 1, !.y = self.y + 1]) ELSE None

\* BoundedPoint::get_from_table: table.get((self.y, self.x)).
get_from_table(self, table) ==
    IF <<self.y, self.x>> \in DOMAIN table THEN Some(table[<<self.y, self.x>>]) ELSE None

\* impl Direction for CardinalDirection
cardinal_get_clockwise(d) ==
    CASE d = "Up" -> "Right" [] d = "Down" -> "Left"
      [] d = "Left" -> "Up"  [] d = "Right" -> "Down"

cardinal_get_counter_clockwise(d) ==
    CASE d = "Up" -> "Left"   [] d = "Down" -> "Right"
      [] d = "Left" -> "Down" [] d = "Right" -> "Up"

----------------------------------------------------------------------------
(* Day 16: the mazes                                                         *)

\* usize::MAX, the cost every visited_path entry starts with.  The model's
\* costs stay far below the number it is written as here.
USIZE_MAX == 2147483647

\* The widest column index of the enumerated mazes; they have two rows.
MazeMaxX == 2
MazeRows == {0, 1}

\* A maze: the table (indexed (y, x)) with its maximum coordinates.
MakeMaze(mx, my, startCell, endCell, walls) ==
    [max_x |-> mx, max_y |-> my,
     table |-> [i \in (0 .. my) \X (0 .. mx) |->
                  IF i = startCell THEN "Start"
                  ELSE IF i = endCell THEN "End"
                  ELSE IF i \in walls THEN "Wall" ELSE "Open"]]

\* Every maze of two rows with one Start, one End and any walls.
EnumeratedMazes ==
    LET cells == MazeRows \X (0 .. MazeMaxX)
        ends  == {p \in cells \X cells : p[1] # p[2]}
    IN  {MakeMaze(MazeMaxX, 1, p[1], p[2], w) : p \in ends, w \in SUBSET cells}

\* A maze of four columns and three rows whose only route has three turns:
\*      # . S .
\*      E . # .
\*      . . . .
SerpentineMaze == MakeMaze(3, 2, <<0, 2>>, <<1, 0>>, {<<0, 0>>, <<1, 2>>})

Mazes == EnumeratedMazes \cup {SerpentineMaze}

\* run(): the first Start cell of the table, as a BoundedPoint.
StartOf(m) ==
    LET i == CHOOSE i \in DOMAIN m.table : m.table[i] = "Start"
    IN  BoundedPoint(i[2], i[1], m.max_x, m.max_y)

----------------------------------------------------------------------------
(* Day 16: find_shortest_path_weight and find_all_shortest_paths            *)

direction_to_index(direction) ==
    CASE direction = "Up" -> 0 [] direction = "Down" -> 1
      [] direction = "Left" -> 2 [] direction = "Right" -> 3

\* The Array3 index of a (direction, point) item.
IndexOf(direction, point) == <<point.y, point.x, direction_to_index(direction)>>

\* Moves whose quarter turns cost nothing.
get_valid_moves_free_turns(direction, point, table) ==
    LET ahead == get_adjacent(point, direction)
        step  == IF ahead # None
                    /\ get_from_table(ahead[2], table) \in
                          {Some("Open"), Some("End"), Some("Start")}
                 THEN <<[direction |-> direction, point |-> ahead[2], score |-> 1]>>
                 ELSE <<>>
    IN  step \o <<[direction |-> cardinal_get_clockwise(direction),
                   point |-> point, score |-> 0],
                  [direction |-> cardinal_get_counter_clockwise(direction),
                   point |-> point, score |-> 0]>>

\* get_valid_moves: the step forward if the cell ahead is no wall, then the
\* two quarter turns on the spot.
get_valid_moves(direction, point, table) ==
    LET ahead == get_adjacent(point, direction)
        step  == IF ahead # None
                    /\ get_from_table(ahead[2], table) \in
                          {Some("Open"), Some("End"), Some("Start")}
                 THEN <<[direction |-> direction, point |-> ahead[2], score |-> 1]>>
                 ELSE <<>>
    IN  step \o <<[direction |-> cardinal_get_clockwise(direction),
                   point |-> point, score |-> 1000],
                  [direction |-> cardinal_get_counter_clockwise(direction),
                   point |-> point, score |-> 1000]>>

\* A queue that ignores its priorities: any item comes first.
pop_candidates_unordered(q) == DOMAIN q

\* A queue built without Reverse: the item of greatest cost comes first.
pop_candidates_greatest(q) == {i \in DOMAIN q : \A j \in DOMAIN q : q[i] >= q[j]}

\* PriorityQueue::pop with Reverse priorities: an item of least cost; which
\* of several is the library's choice.
pop_candidates(q) == {i \in DOMAIN q : \A j \in DOMAIN q : q[i] <= q[j]}

\* A change_priority that does not compare: the new priority always replaces
\* the old.
relax_queue_always_changes(q, item, new_priority) ==
    [i \in DOMAIN q \cup {item} |-> IF i = item THEN new_priority ELSE q[i]]

\* queue.push / queue.change_priority after get_priority.
relax_queue(q, item, new_priority) ==
    IF item \in DOMAIN q
    THEN IF new_priority < q[item] THEN [q EXCEPT ![item] = new_priority] ELSE q
    ELSE [i \in DOMAIN q \cup {item} |-> IF i = item THEN new_priority ELSE q[i]]

\* An update that forgets the tie: Equal leaves the entry alone.
relax_path_drops_ties(path, pred, new_priority) ==
    IF new_priority < path.cost THEN [prev |-> {pred}, cost |-> new_priority]
    ELSE path

\* An update that forgets to clear: Less keeps the old predecessors.
relax_path_keeps_stale(path, pred, new_priority) ==
    IF new_priority < path.cost
    THEN [prev |-> path.prev \cup {pred}, cost |-> new_priority]
    ELSE IF new_priority = path.cost THEN [prev |-> path.prev \cup {pred}, cost |-> path.cost]
    ELSE path

\* match new_priority.cmp(&path.1): Less clears and sets, Equal adds.
relax_path(path, pred, new_priority) ==
    IF new_priority < path.cost THEN [prev |-> {pred}, cost |-> new_priority]
    ELSE IF new_priority = path.cost THEN [prev |-> path.prev \cup {pred}, cost |-> path.cost]
    ELSE path

\* The for_each over the moves that are not visited.
RECURSIVE relax_moves(_, _, _, _, _)
relax_moves(moves, pred, priority, seen, acc) ==
    IF moves = <<>> THEN acc
    ELSE LET m == Head(moves)
             item == <<m.direction, m.point>>
             idx == IndexOf(m.direction, m.point)
             new_priority == priority + m.score
             next ==
                 IF idx \in seen THEN acc
                 ELSE [queue |-> relax_queue(acc.queue, item, new_priority),
                       paths |-> IF acc.paths = Idle THEN Idle
                                 ELSE [acc.paths EXCEPT
                                         ![idx] = relax_path(@, pred, new_priority)],
                       proposed |-> IF acc.paths = Idle THEN acc.proposed
                                    ELSE acc.proposed \cup
                                      {[target |-> idx, pred |-> pred, cost |-> new_priority]}]
         IN  relax_moves(Tail(moves), pred, priority, seen, next)

MazeInit ==
    /\ maze \in Mazes
    /\ path_stat \in {"ShortestWeight", "TotalSeats"}
    /\ start = StartOf(maze)
    /\ queue = [i \in {<<"Right", start>>} |-> 0]
    /\ result = None
    /\ visited = {}
    /\ visited_path = IF path_stat = "TotalSeats"
                      THEN [i \in (0 .. maze.max_y) \X (0 .. maze.max_x) \X (0 .. 3) |->
                              [prev |-> {}, cost |-> USIZE_MAX]]
                      ELSE Idle
    /\ on_shortest_path = {}
    /\ path_queue = <<>>
    /\ answer = None
    /\ proposed = {}
    /\ pc = "search"
    /\ initial = Idle /\ trace = Idle /\ hops = Idle /\ ToolIdle

Without(q, item) == [i \in DOMAIN q \ {item} |-> q[i]]

\* The popped point is the End cell: record the result and break.
PopEnd ==
    /\ pc = "search"
    /\ \E item \in pop_candidates(queue) :
         /\ get_from_table(item[2], maze.table) = Some("End")
         /\ result' = Some(IF path_stat = "TotalSeats" THEN <<queue[item], item[2]>>
                           ELSE queue[item])
         /\ queue' = Without(queue, item)
    /\ pc' = "after"
    /\ UNCHANGED <<visited, bfsVars, hops, toolVars, maze, start, path_stat, visited_path,
                   on_shortest_path, path_queue, answer, proposed>>

\* The loop body for a popped item that is not the End cell: skip it if
\* visited, else mark it and relax its moves.
ExpandItem(item, moves) ==
    LET idx == IndexOf(item[1], item[2])
        rest == Without(queue, item)
        done == relax_moves(moves, item, queue[item], visited \cup {idx},
                            [queue |-> rest, paths |-> visited_path,
                             proposed |-> proposed])
    IN  /\ get_from_table(item[2], maze.table) # Some("End")
        /\ IF idx \in visited
           THEN /\ queue' = rest
                /\ UNCHANGED <<visited, visited_path, proposed>>
           ELSE /\ visited' = visited \cup {idx}
                /\ queue' = done.queue
                /\ visited_path' = done.paths
                /\ proposed' = done.proposed

\* Any other popped item, with the moves of get_valid_moves.
PopExpand ==
    /\ pc = "search"
    /\ \E item \in pop_candidates(queue) :
         ExpandItem(item, get_valid_moves(item[1], item[2], maze.table))
    /\ UNCHANGED <<result, pc, bfsVars, hops, toolVars, maze, start, path_stat, on_shortest_path,
                   path_queue, answer>>

\* queue.pop() is None: the loop ends with result still None.
SearchExhausted ==
    /\ pc = "search" /\ DOMAIN queue = {}
    /\ pc' = "after"
    /\ UNCHANGED <<queue, visited, result, bfsVars, mazeVars, hops, toolVars>>

\* find_shortest_path_weight returns result.
ReturnWeight ==
    /\ pc = "after" /\ path_stat = "ShortestWeight"
    /\ answer' = result
    /\ pc' = "returned"
    /\ UNCHANGED <<queue, visited, result, bfsVars, hops, toolVars, maze, start, path_stat,
                   visited_path, on_shortest_path, path_queue, proposed>>

\* result.map(..) of None.
ReturnNoPath ==
    /\ pc = "after" /\ path_stat = "TotalSeats" /\ result = None
    /\ answer' = None
    /\ pc' = "returned"
    /\ UNCHANGED <<queue, visited, result, bfsVars, hops, toolVars, maze, start, path_stat,
                   visited_path, on_shortest_path, path_queue, proposed>>

\* The orders in which an AHashSet may be iterated.
RECURSIVE Orders(_)
Orders(S) == IF S = {} THEN {<<>>}
             ELSE UNION {{<<x>> \o o : o \in Orders(S \ {x})} : x \in S}

PointsOf(pairs) == {pair[2] : pair \in pairs}

\* The predecessors of the End cell over CARDINAL_DIRECTIONS, for the entries
\* whose cost is the score.
RECURSIVE SeedOrders(_, _, _)
SeedOrders(n, end_point, score) ==
    IF n > Len(CARDINAL_DIRECTIONS) THEN {<<>>}
    ELSE LET entry == visited_path[IndexOf(CARDINAL_DIRECTIONS[n], end_point)]
             here == IF entry.cost = score THEN Orders(entry.prev) ELSE {<<>>}
         IN  {a \o b : a \in here, b \in SeedOrders(n + 1, end_point, score)}

\* result.map(..) of Some: seed the backward walk from the End cell.
SeedWalk ==
    /\ pc = "after" /\ path_stat = "TotalSeats" /\ result # None
    /\ LET score == result[2][1]
           end_point == result[2][2]
       IN  \E order \in SeedOrders(1, end_point, score) :
             /\ path_queue' = order
             /\ on_shortest_path' = {end_point} \cup PointsOf({order[n] : n \in DOMAIN order})
    /\ pc' = "walk"
    /\ UNCHANGED <<queue, visited, result, bfsVars, hops, toolVars, maze, start, path_stat,
                   visited_path, answer, proposed>>

\* while let Some((direction, point)) = path_queue.pop_front()
WalkStep ==
    /\ pc = "walk" /\ path_queue # <<>>
    /\ LET item == Head(path_queue)
           entry == visited_path[IndexOf(item[1], item[2])]
       IN  \E order \in Orders(entry.prev) :
             /\ path_queue' = Tail(path_queue) \o order
             /\ on_shortest_path' = on_shortest_path \cup PointsOf(entry.prev)
    /\ UNCHANGED <<queue, visited, result, pc, bfsVars, hops, toolVars, maze, start, path_stat,
                   visited_path, answer, proposed>>

\* on_shortest_path.len()
ReturnSeats ==
    /\ pc = "walk" /\ path_queue = <<>>
    /\ answer' = Some(Cardinality(on_shortest_path))
    /\ pc' = "returned"
    /\ UNCHANGED <<queue, visited, result, bfsVars, hops, toolVars, maze, start, path_stat,
                   visited_path, on_shortest_path, path_queue, proposed>>

MazeNext ==
    \/ PopEnd
    \/ PopExpand
    \/ SearchExhausted
    \/ ReturnWeight
    \/ ReturnNoPath
    \/ SeedWalk
    \/ WalkStep
    \/ ReturnSeats

SpecMaze == MazeInit /\ [][MazeNext]_vars

----------------------------------------------------------------------------
(* The cost of walks through a maze, from the words of the puzzle: a walk   *)
(* is a sequence of steps forward onto cells that are no wall (cost 1) and  *)
(* quarter turns on the spot (cost 1000).                                    *)

Horizontal(d) == d \in {"Left", "Right"}

\* (dy, dx) of one step.
Delta(d) == CASE d = "Up" -> <<-1, 0>> [] d = "Down" -> <<1, 0>>
              [] d = "Left" -> <<0, -1>> [] d = "Right" -> <<0, 1>>

Passable(m) == {i \in DOMAIN m.table : m.table[i] # "Wall"}

WalkStates(m) == CardinalDirection \X Passable(m)

\* <<from, to, cost>>
WalkEdges(m) ==
    {<<u, <<u[1], <<u[2][1] + Delta(u[1])[1], u[2][2] + Delta(u[1])[2]>>>>, 1>> :
        u \in {u \in WalkStates(m) :
                 <<u[2][1] + Delta(u[1])[1], u[2][2] + Delta(u[1])[2]>> \in Passable(m)}}
    \cup
    {<<t[1], <<t[2], t[1][2]>>, 1000>> :
        t \in {t \in WalkStates(m) \X CardinalDirection :
                 Horizontal(t[1][1]) # Horizontal(t[2])}}

Reversed(edges) == {<<e[2], e[1], e[3]>> : e \in edges}

SetMin(S) == CHOOSE x \in S : \A y \in S : x <= y

\* Least cost of a walk from a state of cost 0 to every state; -1: no walk.
RECURSIVE Cheapest(_, _)
Cheapest(dist, edges) ==
    LET next == [v \in DOMAIN dist |->
                   LET offers == {dist[e[1]] + e[3] :
                                    e \in {e \in edges : e[2] = v /\ dist[e[1]] # -1}}
                                 \cup (IF dist[v] # -1 THEN {dist[v]} ELSE {})
                   IN  IF offers = {} THEN -1 ELSE SetMin(offers)]
    IN  IF next = dist THEN dist ELSE Cheapest(next, edges)

StartCell(m) == CHOOSE i \in DOMAIN m.table : m.table[i] = "Start"
EndCell(m) == CHOOSE i \in DOMAIN m.table : m.table[i] = "End"

FromStart(m) ==
    Cheapest([v \in WalkStates(m) |-> IF v = <<"Right", StartCell(m)>> THEN 0 ELSE -1],
             WalkEdges(m))

ToEnd(m) ==
    Cheapest([v \in WalkStates(m) |-> IF v[2] = EndCell(m) THEN 0 ELSE -1],
             Reversed(WalkEdges(m)))

\* The least cost of a walk from the start facing Right to the End cell.
CheapestWalk(m) ==
    LET d == FromStart(m)
        arrivals == {d[<<f, EndCell(m)>>] : f \in CardinalDirection} \ {-1}
    IN  IF arrivals = {} THEN None ELSE Some(SetMin(arrivals))

\* The cells that lie on at least one walk of least cost.
CellsOnCheapestWalks(m) ==
    LET a == FromStart(m)
        b == ToEnd(m)
        best == CheapestWalk(m)[2]
    IN  {c \in Passable(m) :
           \E f \in CardinalDirection :
              /\ a[<<f, c>>] # -1 /\ b[<<f, c>>] # -1
              /\ a[<<f, c>>] + b[<<f, c>>] = best}

(* C7: find_shortest_path_weight returns the least cost, over all walks from *)
(* the start facing Right to the End cell through cells that are no wall, of *)
(* steps times 1 plus quarter turns times 1000, and None exactly when no     *)
(* walk reaches the End cell.                                                 *)
C7_WeightIsCheapestWalk ==
    (pc = "returned" /\ path_stat = "ShortestWeight") => answer = CheapestWalk(maze)

\* A maze with a wall whose cheapest walk needs two turns or more was solved.
C7_Witness ==
    /\ pc = "returned" /\ path_stat = "ShortestWeight"
    /\ answer # None /\ answer[2] > 2000
    /\ \E i \in DOMAIN maze.table : maze.table[i] = "Wall"

(* C8: find_all_shortest_paths returns the number of cells, start and End    *)
(* included, that lie on at least one walk of least cost: the backward walk  *)
(* collects exactly those cells; None when no walk reaches the End cell.     *)
C8_SeatsAreCellsOnCheapestWalks ==
    (pc = "returned" /\ path_stat = "TotalSeats") =>
        IF CheapestWalk(maze) = None THEN answer = None
        ELSE /\ answer = Some(Cardinality(CellsOnCheapestWalks(maze)))
             /\ on_shortest_path =
                  {BoundedPoint(c[2], c[1], maze.max_x, maze.max_y) :
                     c \in CellsOnCheapestWalks(maze)}

\* Two cheapest walks through different cells were merged: more cells were
\* counted than one walk of that many steps visits.
C8_Witness ==
    /\ pc = "returned" /\ path_stat = "TotalSeats"
    /\ answer # None
    /\ answer[2] > (result[2][1] % 1000) + 1

\* The relaxations proposed so far for one (point, direction) entry.
ProposedFor(idx) == {q \in proposed : q.target = idx}

(* C9: at every step of the forward search each predecessor-map entry holds  *)
(* the least cost proposed so far for it and exactly the predecessors that   *)
(* proposed that cost; an entry nothing was proposed for is (empty, MAX).     *)
C9_EntriesHoldBestProposals ==
    (path_stat = "TotalSeats") =>
        \A idx \in DOMAIN visited_path :
            LET P == ProposedFor(idx)
                best == SetMin({q.cost : q \in P})
            IN  IF P = {} THEN visited_path[idx] = [prev |-> {}, cost |-> USIZE_MAX]
                ELSE visited_path[idx] =
                        [prev |-> {q.pred : q \in {q \in P : q.cost = best}}, cost |-> best]

\* The cost the proposer of a relaxation was popped with.
ProposerCost(q) == q.cost - (IF IndexOf(q.pred[1], q.pred[2])[1] = q.target[1]
                                /\ IndexOf(q.pred[1], q.pred[2])[2] = q.target[2]
                             THEN 1000 ELSE 1)

\* An entry was replaced by a strictly better proposal from a later proposer,
\* another entry holds a tie, and a third refused a worse proposal.
C9_Witness ==
    /\ path_stat = "TotalSeats"
    /\ \E q1 \in proposed : \E q2 \in ProposedFor(q1.target) :
          /\ q1.cost > q2.cost /\ ProposerCost(q1) < ProposerCost(q2)
          /\ visited_path[q1.target].prev = {q2.pred}
    /\ \E q1 \in proposed : \E q2 \in ProposedFor(q1.target) :
          /\ q1.cost > q2.cost /\ ProposerCost(q1) > ProposerCost(q2)
    /\ \E idx \in DOMAIN visited_path : Cardinality(visited_path[idx].prev) >= 2

----------------------------------------------------------------------------
(* The priority-search loop of day 16 under unit costs, after the           *)
(* breadth-first loop of day 18 on the same grid with the same start and    *)
(* goal. A Wall cell is Corrupted memory, every other cell is Safe, and the *)
(* goal is the End cell.                                                     *)

\* The moves of get_valid_moves with every step at 1 and every turn at 0.
unit_moves(direction, point, table) ==
    LET moves == get_valid_moves(direction, point, table)
    IN  [n \in DOMAIN moves |->
           [moves[n] EXCEPT !.score = IF moves[n].point = point THEN 0 ELSE 1]]

MemoryOf(m) ==
    [i \in DOMAIN m.table |-> IF m.table[i] = "Wall" THEN "Corrupted" ELSE "Safe"]

GoalOf(m) ==
    LET i == CHOOSE i \in DOMAIN m.table : m.table[i] = "End"
    IN  BoundedPoint(i[2], i[1], m.max_x, m.max_y)

\* into_iter_cardinal_adjacent: the neighbours that exist, in the order of
\* CARDINAL_DIRECTIONS.
RECURSIVE into_iter_cardinal_adjacent(_, _)
into_iter_cardinal_adjacent(point, index) ==
    IF index > Len(CARDINAL_DIRECTIONS) THEN <<>>
    ELSE LET next == get_adjacent(point, CARDINAL_DIRECTIONS[index])
         IN  (IF next = None THEN <<>> ELSE <<next[2]>>)
             \o into_iter_cardinal_adjacent(point, index + 1)

\* day 18 get_adjacent: the cardinal neighbours that are Safe.
safe_adjacent(point, data) ==
    SelectSeq(into_iter_cardinal_adjacent(point, 1),
              LAMBDA adjacent : get_from_table(adjacent, data) = Some("Safe"))

hop_push_same_distance(q, adjacents, distance) ==
    q \o [n \in DOMAIN adjacents |-> <<adjacents[n], distance>>]

\* queue.push_back((adjacent, distance + 1)) for each adjacent.
hop_push(q, adjacents, distance) ==
    q \o [n \in DOMAIN adjacents |-> <<adjacents[n], distance + 1>>]

UniformInit ==
    /\ maze \in Mazes
    /\ path_stat = "ShortestWeight"
    /\ start = StartOf(maze)
    /\ hops = [queue |-> <<<<start, 0>>>>, visited |-> {}, result |-> None]
    /\ queue = [i \in {<<"Right", start>>} |-> 0]
    /\ result = None
    /\ visited = {}
    /\ visited_path = Idle
    /\ on_shortest_path = {}
    /\ path_queue = <<>>
    /\ answer = None
    /\ proposed = {}
    /\ pc = "hops"
    /\ initial = Idle /\ trace = Idle /\ ToolIdle

\* The popped point is the goal: shortest_path returns Some(distance).
HopEnd ==
    /\ pc = "hops" /\ hops.queue # <<>>
    /\ Head(hops.queue)[1] = GoalOf(maze)
    /\ hops' = [hops EXCEPT !.queue = Tail(@), !.result = Some(Head(hops.queue)[2])]
    /\ pc' = "search"
    /\ UNCHANGED <<queue, visited, result, bfsVars, toolVars, maze, start, path_stat, visited_path,
                   on_shortest_path, path_queue, answer, proposed>>

\* The popped point is visited already: continue.
HopRepeat ==
    /\ pc = "hops" /\ hops.queue # <<>>
    /\ Head(hops.queue)[1] # GoalOf(maze)
    /\ Head(hops.queue)[1] \in hops.visited
    /\ hops' = [hops EXCEPT !.queue = Tail(@)]
    /\ UNCHANGED <<queue, visited, result, pc, bfsVars, toolVars, maze, start, path_stat,
                   visited_path, on_shortest_path, path_queue, answer, proposed>>

\* Mark the popped point and push its Safe neighbours that are not visited.
HopExpand ==
    /\ pc = "hops" /\ hops.queue # <<>>
    /\ LET point == Head(hops.queue)[1]
           distance == Head(hops.queue)[2]
           seen == hops.visited \cup {point}
           adjacents == SelectSeq(safe_adjacent(point, MemoryOf(maze)),
                                  LAMBDA adjacent : adjacent \notin seen)
       IN  /\ point # GoalOf(maze)
           /\ point \notin hops.visited
           /\ hops' = [hops EXCEPT !.visited = seen,
                                   !.queue = hop_push(Tail(@), adjacents, distance)]
    /\ UNCHANGED <<queue, visited, result, pc, bfsVars, toolVars, maze, start, path_stat,
                   visited_path, on_shortest_path, path_queue, answer, proposed>>

\* queue.pop_front() is None: shortest_path returns None.
HopExhausted ==
    /\ pc = "hops" /\ hops.queue = <<>>
    /\ pc' = "search"
    /\ UNCHANGED <<queue, visited, result, bfsVars, mazeVars, hops, toolVars>>

\* The priority loop's body with the moves at unit costs.
UniformPopExpand ==
    /\ pc = "search"
    /\ \E item \in pop_candidates(queue) :
         ExpandItem(item, unit_moves(item[1], item[2], maze.table))
    /\ UNCHANGED <<result, pc, bfsVars, hops, toolVars, maze, start, path_stat, on_shortest_path,
                   path_queue, answer>>

UniformNext ==
    \/ HopEnd
    \/ HopRepeat
    \/ HopExpand
    \/ HopExhausted
    \/ PopEnd
    \/ UniformPopExpand
    \/ SearchExhausted
    \/ ReturnWeight

SpecUniform == UniformInit /\ [][UniformNext]_vars

----------------------------------------------------------------------------
(* The Visitor implementations of src/libs/graph.rs.  A dense store is a    *)
(* function from its indices to its cells; a visit whose index the store    *)
(* does not have is the panic of expect("Exists").                           *)

Panic == [panic |-> TRUE]

\* impl Direction for PointDirection::array_index
point_array_index(d) ==
    CASE d = "Up" -> 0 [] d = "UpRight" -> 1 [] d = "UpLeft" -> 2 [] d = "Down" -> 3
      [] d = "DownRight" -> 4 [] d = "DownLeft" -> 5 [] d = "Left" -> 6 [] d = "Right" -> 7

\* An index that forgets the direction.
array_index_zero(d) == 0

\* impl Direction for CardinalDirection::array_index
cardinal_array_index(d) ==
    CASE d = "Up" -> 0 [] d = "Down" -> 1 [] d = "Left" -> 2 [] d = "Right" -> 3

\* A body that marks the cell and forgets to answer true for a marked one.
mark_answers_false(self, idx) ==
    IF idx \notin DOMAIN self THEN Panic
    ELSE [was |-> FALSE, store |-> [self EXCEPT ![idx] = TRUE]]

\* A body that takes a cell past the store for an unset one and writes nothing.
mark_ignores_outside(self, idx) ==
    IF idx \notin DOMAIN self THEN [was |-> FALSE, store |-> self]
    ELSE IF self[idx] THEN [was |-> TRUE, store |-> self]
    ELSE [was |-> FALSE, store |-> [self EXCEPT ![idx] = TRUE]]

\* The body every visit on a store of bool shares: get_mut(idx).expect(..),
\* return true if the cell is set, else set it and return false.
mark(self, idx) ==
    IF idx \notin DOMAIN self THEN Panic
    ELSE IF self[idx] THEN [was |-> TRUE, store |-> self]
    ELSE [was |-> FALSE, store |-> [self EXCEPT ![idx] = TRUE]]

\* get(idx).is_some_and(|x| *x)
is_marked(self, idx) == idx \in DOMAIN self /\ self[idx]

\* A body that stores the payload of every visit.
mark_with_overwrites(self, idx, value) ==
    IF idx \notin DOMAIN self THEN Panic
    ELSE [was |-> self[idx] # None, store |-> [self EXCEPT ![idx] = Some(value)]]

\* The body of visit on a store of Option<T>: return true if the cell is
\* Some, else store Some(value.clone()) and return false.
mark_with(self, idx, value) ==
    IF idx \notin DOMAIN self THEN Panic
    ELSE IF self[idx] # None THEN [was |-> TRUE, store |-> self]
    ELSE [was |-> FALSE, store |-> [self EXCEPT ![idx] = Some(value)]]

\* get(idx).is_some_and(|x| x.is_some())
is_some_at(self, idx) == idx \in DOMAIN self /\ self[idx] # None

\* impl Visitor<(BoundedPoint, D)> for Array3<bool>
array3_point_visit(self, key) ==
    mark(self, <<key[1].y, key[1].x, cardinal_array_index(key[2])>>)
array3_point_has_visited(self, key) ==
    is_marked(self, <<key[1].y, key[1].x, cardinal_array_index(key[2])>>)

\* impl Visitor<((usize, usize), D)> for Array3<bool>
array3_pair_visit(self, key) ==
    mark(self, <<key[1][1], key[1][2], cardinal_array_index(key[2])>>)
array3_pair_has_visited(self, key) ==
    is_marked(self, <<key[1][1], key[1][2], cardinal_array_index(key[2])>>)

\* impl Visitor<(usize, usize)> for Array2<bool>
array2_pair_visit(self, key) == mark(self, key)
array2_pair_has_visited(self, key) == is_marked(self, key)

\* impl Visitor<((usize, usize), T)> for Array2<bool>
array2_pair_payload_visit(self, key) == mark(self, key[1])
array2_pair_payload_has_visited(self, key) == is_marked(self, key[1])

\* impl Visitor<((usize, usize), T)> for Array2<Option<T>>
array2_option_pair_visit(self, key) == mark_with(self, key[1], key[2])
array2_option_pair_has_visited(self, key) == is_some_at(self, key[1])

\* impl Visitor<BoundedPoint> for Array2<bool>
array2_point_visit(self, key) == mark(self, <<key.y, key.x>>)
array2_point_has_visited(self, key) ==
    LET cell == get_from_table(key, self) IN cell # None /\ cell[2]

\* impl Visitor<(BoundedPoint, T)> for Array2<bool>
array2_point_payload_visit(self, key) == mark(self, <<key[1].y, key[1].x>>)
array2_point_payload_has_visited(self, key) ==
    LET cell == get_from_table(key[1], self) IN cell # None /\ cell[2]

\* impl Visitor<(BoundedPoint, T)> for Array2<Option<T>>
array2_option_point_visit(self, key) == mark_with(self, <<key[1].y, key[1].x>>, key[2])
array2_option_point_has_visited(self, key) ==
    LET cell == get_from_table(key[1], self) IN cell # None /\ cell[2] # None

\* impl Visitor<(T, U)> for AHashSet<T>
ahash_payload_visit(self, key) == [was |-> key[1] \in self, store |-> self \cup {key[1]}]
ahash_payload_has_visited(self, key) == key[1] \in self

\* impl Visitor<T> for HashSet<T>
hash_visit(self, key) == [was |-> key \in self, store |-> self \cup {key}]
hash_has_visited(self, key) == key \in self

\* impl Visitor<(T, U)> for HashSet<T>
hash_payload_visit(self, key) == [was |-> key[1] \in self, store |-> self \cup {key[1]}]
hash_payload_has_visited(self, key) == key[1] \in self

\* impl Visitor<usize> for Vec<bool>
vec_visit(self, key) == mark(self, key)
vec_has_visited(self, key) == is_marked(self, key)

\* impl Visitor<(usize, T)> for Vec<bool>
vec_payload_visit(self, key) == mark(self, key[1])
vec_payload_has_visited(self, key) == is_marked(self, key[1])

\* The stores of the visitor model: one row of two cells (by four directions
\* in an Array3), a Vec of two cells; the hash sets take any key.  Callers
\* face one of two directions.
VisitorCells == {<<0, 0>>, <<0, 1>>}
VisitorPoints == {BoundedPoint(0, 0, 1, 0), BoundedPoint(1, 0, 1, 0)}
VisitorDirections == {"Up", "Right"}
Payloads == {"p1", "p2"}
HashKeys == {"k1", "k2"}

\* A key past the store's dimensions, per dense key type.
OutsideCell == <<1, 0>>
OutsidePoint == BoundedPoint(0, 1, 1, 1)

DenseBackends == {"Array3Point", "Array3Pair", "Array2Pair", "Array2PairPayload",
                  "Array2OptionPair", "Array2Point", "Array2PointPayload",
                  "Array2OptionPoint", "Vec", "VecPayload"}
PayloadBackends == {"Array2PairPayload", "Array2OptionPair", "Array2PointPayload",
                    "Array2OptionPoint", "AHashSetPayload", "HashSetPayload", "VecPayload"}
OptionBackends == {"Array2OptionPair", "Array2OptionPoint"}
Backends == DenseBackends \cup {"AHashSet", "AHashSetPayload", "HashSet", "HashSetPayload"}

\* Array3::from_elem(.., false), Array2::from_elem(.., false / None),
\* vec![false; n], AHashSet::new().
FreshStore(b) ==
    CASE b \in {"Array3Point", "Array3Pair"} ->
            [i \in {<<c[1], c[2], n>> : c \in VisitorCells, n \in 0 .. 3} |-> FALSE]
      [] b \in OptionBackends -> [i \in VisitorCells |-> None]
      [] b \in {"Array2Pair", "Array2PairPayload", "Array2Point", "Array2PointPayload"} ->
            [i \in VisitorCells |-> FALSE]
      [] b \in {"Vec", "VecPayload"} -> [i \in 0 .. 1 |-> FALSE]
      [] OTHER -> {}

\* The part of a key that the backend takes as the key's identity.
KeyIdentities(b) ==
    CASE b \in {"Array3Point"} -> (VisitorPoints \cup {OutsidePoint}) \X VisitorDirections
      [] b \in {"Array3Pair"} -> (VisitorCells \cup {OutsideCell}) \X VisitorDirections
      [] b \in {"Array2Pair", "Array2PairPayload", "Array2OptionPair"} ->
            VisitorCells \cup {OutsideCell}
      [] b \in {"Array2Point", "Array2PointPayload", "Array2OptionPoint"} ->
            VisitorPoints \cup {OutsidePoint}
      [] b \in {"Vec", "VecPayload"} -> 0 .. 2
      [] OTHER -> HashKeys

\* The keys a caller can hand to the backend.
KeysOf(b) == IF b \in PayloadBackends THEN KeyIdentities(b) \X Payloads
             ELSE KeyIdentities(b)

IdentityOf(b, key) == IF b \in PayloadBackends THEN key[1] ELSE key

\* Visitor::visit, by implementation.
Visit(b, self, key) ==
    CASE b = "Array3Point" -> array3_point_visit(self, key)
      [] b = "Array3Pair" -> array3_pair_visit(self, key)
      [] b = "Array2Pair" -> array2_pair_visit(self, key)
      [] b = "Array2PairPayload" -> array2_pair_payload_visit(self, key)
      [] b = "Array2OptionPair" -> array2_option_pair_visit(self, key)
      [] b = "Array2Point" -> array2_point_visit(self, key)
      [] b = "Array2PointPayload" -> array2_point_payload_visit(self, key)
      [] b = "Array2OptionPoint" -> array2_option_point_visit(self, key)
      [] b = "AHashSet" -> visit(self, key)
      [] b = "AHashSetPayload" -> ahash_payload_visit(self, key)
      [] b = "HashSet" -> hash_visit(self, key)
      [] b = "HashSetPayload" -> hash_payload_visit(self, key)
      [] b = "Vec" -> vec_visit(self, key)
      [] b = "VecPayload" -> vec_payload_visit(self, key)

\* Visitor::has_visited, by implementation.
HasVisited(b, self, key) ==
    CASE b = "Array3Point" -> array3_point_has_visited(self, key)
      [] b = "Array3Pair" -> array3_pair_has_visited(self, key)
      [] b = "Array2Pair" -> array2_pair_has_visited(self, key)
      [] b = "Array2PairPayload" -> array2_pair_payload_has_visited(self, key)
      [] b = "Array2OptionPair" -> array2_option_pair_has_visited(self, key)
      [] b = "Array2Point" -> array2_point_has_visited(self, key)
      [] b = "Array2PointPayload" -> array2_point_payload_has_visited(self, key)
      [] b = "Array2OptionPoint" -> array2_option_point_has_visited(self, key)
      [] b = "AHashSet" -> has_visited(self, key)
      [] b = "AHashSetPayload" -> ahash_payload_has_visited(self, key)
      [] b = "HashSet" -> hash_has_visited(self, key)
      [] b = "HashSetPayload" -> hash_payload_has_visited(self, key)
      [] b = "Vec" -> vec_has_visited(self, key)
      [] b = "VecPayload" -> vec_payload_has_visited(self, key)

\* The longest sequence of calls on one store.
MaxCalls == 4

VisitorInit ==
    /\ backend \in Backends
    /\ visitor = FreshStore(backend)
    /\ call_log = <<>>
    /\ pc = "calling"
    /\ queue = Idle /\ visited = Idle /\ result = Idle
    /\ initial = Idle /\ trace = Idle /\ MazeIdle /\ hops = Idle /\ PlanarIdle /\ IterIdle
    /\ DirIdle /\ DayIdle

\* visitor.visit(&key) returns.
VisitCall ==
    /\ pc = "calling" /\ Len(call_log) < MaxCalls
    /\ \E key \in KeysOf(backend) :
         LET r == Visit(backend, visitor, key)
         IN  /\ r # Panic
             /\ visitor' = r.store
             /\ call_log' = Append(call_log, [op |-> "visit", key |-> key, answer |-> r.was])
    /\ UNCHANGED <<queue, visited, result, pc, bfsVars, mazeVars, hops, planarVars, iterVars, dirVars, dayVars,
                   backend>>

\* visitor.visit(&key) panics in expect("Exists"): the store is left as it was.
VisitPanics ==
    /\ pc = "calling" /\ Len(call_log) < MaxCalls
    /\ \E key \in KeysOf(backend) : Visit(backend, visitor, key) = Panic
    /\ pc' = "panicked"
    /\ UNCHANGED <<queue, visited, result, bfsVars, mazeVars, hops, planarVars, iterVars, dirVars, dayVars,
                   visitorVars>>

\* visitor.has_visited(&key): &self, nothing is written.
HasVisitedCall ==
    /\ pc = "calling" /\ Len(call_log) < MaxCalls
    /\ \E key \in KeysOf(backend) :
         call_log' = Append(call_log, [op |-> "has_visited", key |-> key,
                                       answer |-> HasVisited(backend, visitor, key)])
    /\ UNCHANGED <<queue, visited, result, pc, bfsVars, mazeVars, hops, planarVars, iterVars, dirVars, dayVars,
                   backend, visitor>>

VisitorNext ==
    \/ VisitCall
    \/ VisitPanics
    \/ HasVisitedCall

SpecVisitor == VisitorInit /\ [][VisitorNext]_vars

\* The visits before call i whose key has the identity id.
VisitsBefore(i, id) ==
    {j \in 1 .. (i - 1) : /\ call_log[j].op = "visit"
                          /\ IdentityOf(backend, call_log[j].key) = id}

AllVisitsBefore(i) == {j \in 1 .. (i - 1) : call_log[j].op = "visit"}

(* C11: on a fresh store of every backend, has_visited(k) and the first      *)
(* visit(k) answer false; once visit(k) is the one visit made, has_visited(k)*)
(* and the second visit(k) answer true.                                      *)
C11_FreshStoreFalseThenTrue ==
    (backend \in Backends) =>
        \A i \in DOMAIN call_log :
            LET id == IdentityOf(backend, call_log[i].key)
            IN  /\ (AllVisitsBefore(i) = {}) => (call_log[i].answer = FALSE)
                /\ (AllVisitsBefore(i) # {} /\ AllVisitsBefore(i) = VisitsBefore(i, id))
                      => (call_log[i].answer = TRUE)

\* has_visited(k), visit(k), has_visited(k), visit(k) on a fresh dense store.
C11_Witness ==
    /\ backend \in DenseBackends
    /\ Len(call_log) = 4
    /\ \A i \in 1 .. 4 : call_log[i].key = call_log[1].key
    /\ <<call_log[1].op, call_log[2].op, call_log[3].op, call_log[4].op>> =
          <<"has_visited", "visit", "has_visited", "visit">>
    /\ <<call_log[1].answer, call_log[2].answer, call_log[3].answer, call_log[4].answer>> =
          <<FALSE, FALSE, TRUE, TRUE>>

(* C12: after any sequence of calls has_visited(k) is true exactly when a    *)
(* visit with the same key was made earlier: no key reverts, has_visited     *)
(* changes nothing and visit(k) marks no other key.                           *)
C12_SeenIffVisitedEarlier ==
    (backend \in Backends) =>
        \A key \in KeysOf(backend) :
            HasVisited(backend, visitor, key) <=>
                (VisitsBefore(Len(call_log) + 1, IdentityOf(backend, key)) # {})

\* In the Array3 store a cell was visited facing one direction, and after a
\* has_visited call the same cell facing the other direction is still unseen.
C12_Witness ==
    /\ backend = "Array3Point"
    /\ Len(call_log) >= 3
    /\ call_log[1].op = "visit" /\ call_log[2].op = "has_visited"
    /\ \E key \in KeysOf(backend) :
          /\ key[1] = call_log[1].key[1] /\ key[2] # call_log[1].key[2]
          /\ ~HasVisited(backend, visitor, key)
    /\ HasVisited(backend, visitor, call_log[1].key)

(* C13: in the backends keyed on (key, payload) only the key decides: every  *)
(* visit after the first visit of a key answers true whatever its payload,    *)
(* and a store of Option<T> holds for each key the payload of its first visit.*)
C13_FirstPayloadKept ==
    (backend \in PayloadBackends) =>
        /\ \A i \in DOMAIN call_log :
              (call_log[i].op = "visit") =>
                  (call_log[i].answer <=>
                      (VisitsBefore(i, IdentityOf(backend, call_log[i].key)) # {}))
        /\ (backend \in OptionBackends) =>
              \A i \in DOMAIN call_log :
                  (call_log[i].op = "visit" /\ ~call_log[i].answer) =>
                      LET key == call_log[i].key
                          idx == IF backend = "Array2OptionPoint"
                                 THEN <<key[1].y, key[1].x>> ELSE key[1]
                      IN  visitor[idx] = Some(key[2])

\* The Option store was visited with p1 then with p2 for the same key.
C13_Witness ==
    /\ backend = "Array2OptionPoint"
    /\ Len(call_log) >= 2
    /\ call_log[1].op = "visit" /\ call_log[2].op = "visit"
    /\ call_log[1].key[1] = call_log[2].key[1]
    /\ call_log[1].key[2] # call_log[2].key[2]
    /\ call_log[2].answer

----------------------------------------------------------------------------
(* impl PlanarCoordinate for BoundedPoint and for (usize, usize)             *)

PointDirection == {"Up", "UpRight", "UpLeft", "Down", "DownRight", "DownLeft",
                   "Left", "Right"}
HorizontalDirection == {"Left", "Right"}
VerticalDirection == {"Up", "Down"}
DiagnalDirection == {"UpRight", "UpLeft", "DownRight", "DownLeft"}

\* RADIAL_DIRECTIONS, in the order of the constant.
RADIAL_DIRECTIONS == <<"Down", "DownLeft", "DownRight", "Left", "Right", "Up",
                       "UpLeft", "UpRight">>

\* usize taken as a three-bit integer: usize::MAX + 1.
UsizeSpan == 8

\* A call that does not return: todo!(), or an arithmetic overflow in a build
\* with overflow checks.
Panics == <<"Panic">>

\* a + b on usize: the sum; past usize::MAX a panic (overflow checks on) or
\* the wrapped sum (overflow checks off).
usize_add(a, b) ==
    IF a + b < UsizeSpan THEN {Some(a + b)} ELSE {Panics, Some((a + b) % UsizeSpan)}

\* usize::checked_sub
checked_sub(a, b) == IF a >= b THEN Some(a - b) ELSE None

\* BoundedPoint::get_adjacent_wrapping
get_adjacent_wrapping(self, point_direction) ==
    LET up    == IF self.y > 0 THEN self.y - 1 ELSE self.max_y
        down  == IF self.y < self.max_y THEN self.y + 1 ELSE 0
        left  == IF self.x > 0 THEN self.x - 1 ELSE self.max_x
        right == IF self.x < self.max_x THEN self.x + 1 ELSE 0
    IN  CASE point_direction = "Up" -> [self EXCEPT !.y = up]
          [] point_direction = "Down" -> [self EXCEPT !.y = down]
          [] point_direction = "Left" -> [self EXCEPT !.x = left]
          [] point_direction = "Right" -> [self EXCEPT !.x = right]
          [] point_direction = "UpRight" -> [self EXCEPT !.x = right, !.y = up]
          [] point_direction = "UpLeft" -> [self EXCEPT !.x = left, !.y = up]
          [] point_direction = "DownRight" -> [self EXCEPT !.x = right, !.y = down]
          [] point_direction = "DownLeft" -> [self EXCEPT !.x = left, !.y = down]

\* if self.c + distance <= max { Some(self.c + distance) } else { None }
add_within(c, distance, max) ==
    {IF sum = Panics THEN Panics ELSE IF sum[2] <= max THEN sum ELSE None :
        sum \in usize_add(c, distance)}

\* BoundedPoint::jump_to: the outcomes of the call.
jump_to(self, horizontal_distance, horizontal_direction, vertical_distance, vertical_direction) ==
    LET xs == IF horizontal_direction = "Left"
              THEN {IF self.x >= horizontal_distance
                    THEN Some(self.x - horizontal_distance) ELSE None}
              ELSE add_within(self.x, horizontal_distance, self.max_x)
        ys == IF vertical_direction = "Up"
              THEN {IF self.y >= vertical_distance
                    THEN Some(self.y - vertical_distance) ELSE None}
              ELSE add_within(self.y, vertical_distance, self.max_y)
    IN  UNION {IF x = Panics THEN {Panics}
               ELSE IF x = None THEN {None}
               ELSE {IF y = Panics THEN Panics
                     ELSE IF y = None THEN None
                     ELSE Some([self EXCEPT !.x = x[2], !.y = y[2]]) : y \in ys} : x \in xs}

\* A stride that stops at the border instead of refusing.
stride_to_clamping(self, distance, direction) ==
    CASE direction = "Up" ->
           {Some([self EXCEPT !.y = IF distance <= self.y THEN self.y - distance ELSE 0])}
      [] direction = "Down" ->
           {Some([self EXCEPT !.y = IF self.y + distance <= self.max_y
                                    THEN self.y + distance ELSE self.max_y])}
      [] direction = "Left" ->
           {Some([self EXCEPT !.x = IF distance <= self.x THEN self.x - distance ELSE 0])}
      [] direction = "Right" ->
           {Some([self EXCEPT !.x = IF self.x + distance <= self.max_x
                                    THEN self.x + distance ELSE self.max_x])}
      [] OTHER -> {Panics}

\* BoundedPoint::stride_to: the outcomes of the call; a diagonal is todo!().
stride_to(self, distance, direction) ==
    CASE direction = "Up" ->
           {IF distance <= self.y THEN Some([self EXCEPT !.y = self.y - distance]) ELSE None}
      [] direction = "Down" ->
           {IF y \in {None, Panics} THEN y ELSE Some([self EXCEPT !.y = y[2]]) :
               y \in add_within(self.y, distance, self.max_y)}
      [] direction = "Left" ->
           {IF distance <= self.x THEN Some([self EXCEPT !.x = self.x - distance]) ELSE None}
      [] direction = "Right" ->
           {IF x \in {None, Panics} THEN x ELSE Some([self EXCEPT !.x = x[2]]) :
               x \in add_within(self.x, distance, self.max_x)}
      [] OTHER -> {Panics}

\* (usize, usize), a (y, x) pair: the checked subtractions first, then the
\* unchecked additions inside the closures.
pair_move(self, up, down, left, right) ==
    LET y == checked_sub(self[1], up)
        x == checked_sub(self[2], left)
    IN  IF y = None \/ x = None THEN {None}
        ELSE UNION {{IF ny = Panics \/ nx = Panics THEN Panics ELSE Some(<<ny[2], nx[2]>>) :
                        nx \in usize_add(x[2], right)} : ny \in usize_add(y[2], down)}

\* impl PlanarCoordinate for (usize, usize)::jump_to: the horizontal match is
\* evaluated before the vertical one.
pair_jump_to(self, horizontal_distance, horizontal_direction, vertical_distance, vertical_direction) ==
    LET xs == IF horizontal_direction = "Left"
              THEN {checked_sub(self[2], horizontal_distance)}
              ELSE usize_add(self[2], horizontal_distance)
        ys == IF vertical_direction = "Up"
              THEN {checked_sub(self[1], vertical_distance)}
              ELSE usize_add(self[1], vertical_distance)
    IN  UNION {IF x = Panics THEN {Panics}
               ELSE IF x = None THEN {None}
               ELSE {IF y = Panics THEN Panics
                     ELSE IF y = None THEN None
                     ELSE Some(<<y[2], x[2]>>) : y \in ys} : x \in xs}

\* impl PlanarCoordinate for (usize, usize)::stride_to
pair_stride_to(self, distance, direction) ==
    CASE direction = "Up" -> pair_move(self, distance, 0, 0, 0)
      [] direction = "UpRight" -> pair_move(self, distance, 0, 0, distance)
      [] direction = "UpLeft" -> pair_move(self, distance, 0, distance, 0)
      [] direction = "Down" -> pair_move(self, 0, distance, 0, 0)
      [] direction = "DownRight" -> pair_move(self, 0, distance, 0, distance)
      [] direction = "DownLeft" -> pair_move(self, 0, distance, distance, 0)
      [] direction = "Left" -> pair_move(self, 0, 0, distance, 0)
      [] direction = "Right" -> pair_move(self, 0, 0, 0, distance)

\* impl PlanarCoordinate for (usize, usize)::get_adjacent
pair_get_adjacent(self, point_direction) ==
    CASE point_direction = "Up" -> pair_move(self, 1, 0, 0, 0)
      [] point_direction = "UpRight" -> pair_move(self, 1, 0, 0, 1)
      [] point_direction = "UpLeft" -> pair_move(self, 1, 0, 1, 0)
      [] point_direction = "Down" -> pair_move(self, 0, 1, 0, 0)
      [] point_direction = "DownRight" -> pair_move(self, 0, 1, 0, 1)
      [] point_direction = "DownLeft" -> pair_move(self, 0, 1, 1, 0)
      [] point_direction = "Left" -> pair_move(self, 0, 0, 1, 0)
      [] point_direction = "Right" -> pair_move(self, 0, 0, 0, 1)

\* Variant of relative_horizontal_position_to that breaks the tie to the Right.
relative_horizontal_position_to_ties_right(self, other) ==
    IF self.x >= other.x THEN "Right" ELSE "Left"

\* impl PlanarCoordinate for BoundedPoint
relative_horizontal_position_to(self, other) ==
    IF self.x > other.x THEN "Right" ELSE "Left"

relative_vertical_position_to(self, other) ==
    IF self.y > other.y THEN "Down" ELSE "Up"

\* impl PlanarCoordinate for (usize, usize): self.0 is the row, self.1 the column
pair_relative_horizontal_position_to(self, other) ==
    IF self[2] > other[2] THEN "Right" ELSE "Left"

pair_relative_vertical_position_to(self, other) ==
    IF self[1] > other[1] THEN "Down" ELSE "Up"

\* The trait's provided method: the pair of the two components.
relative_position_to(kind, self, other) ==
    IF kind = "BoundedPoint"
    THEN <<relative_horizontal_position_to(self, other),
           relative_vertical_position_to(self, other)>>
    ELSE <<pair_relative_horizontal_position_to(self, other),
           pair_relative_vertical_position_to(self, other)>>

\* The largest max_x and max_y of the grids, and the largest raw coordinate a
\* caller starts from.
GridMax == 2

\* The distances a caller asks for: the short ones, and the largest usize.
Distances == (0 .. (GridMax + 1)) \cup {UsizeSpan - 1}

BoundedPoints ==
    UNION {{BoundedPoint(x, y, mx, my) : x \in 0 .. mx, y \in 0 .. my} :
              mx \in 0 .. GridMax, my \in 0 .. GridMax}

PlanarInit ==
    /\ planar_kind \in {"BoundedPoint", "Pair"}
    /\ coordinate \in IF planar_kind = "BoundedPoint" THEN BoundedPoints
                      ELSE (0 .. GridMax) \X (0 .. GridMax)
    /\ last_call = [op |-> "new", from |-> coordinate, args |-> <<>>, out |-> None]
    /\ pc = "ready"
    /\ queue = Idle /\ visited = Idle /\ result = Idle
    /\ initial = Idle /\ trace = Idle /\ MazeIdle /\ hops = Idle /\ VisitorIdle /\ IterIdle
    /\ DirIdle /\ DayIdle

\* The call returns out: the caller goes on from the point it was given, stays
\* where it is on None, and is gone on a panic.
Lands(op, args, out) ==
    /\ last_call' = [op |-> op, from |-> coordinate, args |-> args, out |-> out]
    /\ coordinate' = IF out \in {None, Panics} THEN coordinate ELSE out[2]
    /\ pc' = IF out = Panics THEN "panicked" ELSE pc
    /\ UNCHANGED <<queue, visited, result, bfsVars, mazeVars, hops, visitorVars,
                   iterVars, dirVars, dayVars, planar_kind>>

GetAdjacent ==
    /\ pc = "ready"
    /\ \E d \in PointDirection :
         \E out \in IF planar_kind = "BoundedPoint" THEN {get_adjacent(coordinate, d)}
                    ELSE pair_get_adjacent(coordinate, d) :
            Lands("get_adjacent", <<d>>, out)

GetAdjacentWrapping ==
    /\ pc = "ready" /\ planar_kind = "BoundedPoint"
    /\ \E d \in PointDirection :
         Lands("get_adjacent_wrapping", <<d>>, Some(get_adjacent_wrapping(coordinate, d)))

StrideTo ==
    /\ pc = "ready"
    /\ \E n \in Distances, d \in PointDirection :
         \E out \in IF planar_kind = "BoundedPoint" THEN stride_to(coordinate, n, d)
                    ELSE pair_stride_to(coordinate, n, d) :
            Lands("stride_to", <<n, d>>, out)

JumpTo ==
    /\ pc = "ready"
    /\ \E hn \in Distances, h \in HorizontalDirection,
          vn \in Distances, v \in VerticalDirection :
         \E out \in IF planar_kind = "BoundedPoint" THEN jump_to(coordinate, hn, h, vn, v)
                    ELSE pair_jump_to(coordinate, hn, h, vn, v) :
            Lands("jump_to", <<hn, h, vn, v>>, out)

\* relative_position_to borrows self and another point (of the same grid, for
\* bounded points) and returns a pair of directions; the caller stays.
RelativePositionTo ==
    /\ pc = "ready"
    /\ \E other \in IF planar_kind = "BoundedPoint"
                     THEN {p \in BoundedPoints : /\ p.max_x = coordinate.max_x
                                                 /\ p.max_y = coordinate.max_y}
                     ELSE (0 .. GridMax) \X (0 .. GridMax) :
          last_call' = [op |-> "relative_position_to", from |-> coordinate,
                        args |-> <<other>>,
                        out |-> relative_position_to(planar_kind, coordinate, other)]
    /\ UNCHANGED <<queue, visited, result, pc, bfsVars, mazeVars, hops, visitorVars,
                   iterVars, dirVars, dayVars, planar_kind, coordinate>>

PlanarNext ==
    \/ GetAdjacent
    \/ GetAdjacentWrapping
    \/ StrideTo
    \/ JumpTo
    \/ RelativePositionTo

SpecPlanar == PlanarInit /\ [][PlanarNext]_vars

\* (dx, dy) of one step in each of the eight directions; y grows downward.
Step8(d) ==
    CASE d = "Up" -> <<0, -1>> [] d = "Down" -> <<0, 1>>
      [] d = "Left" -> <<-1, 0>> [] d = "Right" -> <<1, 0>>
      [] d = "UpRight" -> <<1, -1>> [] d = "UpLeft" -> <<-1, -1>>
      [] d = "DownRight" -> <<1, 1>> [] d = "DownLeft" -> <<-1, 1>>

\* The (dx, dy) the last call asked for.
Asked ==
    CASE last_call.op \in {"get_adjacent", "get_adjacent_wrapping"} -> Step8(last_call.args[1])
      [] last_call.op = "stride_to" ->
           <<last_call.args[1] * Step8(last_call.args[2])[1],
             last_call.args[1] * Step8(last_call.args[2])[2]>>
      [] last_call.op = "jump_to" ->
           <<IF last_call.args[2] = "Left" THEN -last_call.args[1] ELSE last_call.args[1],
             IF last_call.args[4] = "Up" THEN -last_call.args[3] ELSE last_call.args[3]>>
      [] OTHER -> <<0, 0>>

InRange(p) == p.x \in 0 .. p.max_x /\ p.y \in 0 .. p.max_y

\* Where the last call would land on an unbounded plane.
Target == [last_call.from EXCEPT !.x = @ + Asked[1], !.y = @ + Asked[2]]

Clamp(v, max) == IF v < 0 THEN 0 ELSE IF v > max THEN max ELSE v

C15_CardinalNeighbourOrAbsent ==
    (/\ planar_kind = "BoundedPoint"
     /\ last_call.op = "get_adjacent"
     /\ last_call.args[1] \in CardinalDirection) =>
        LET d == last_call.args[1]
            p == last_call.from
            at_border == \/ d = "Up" /\ p.y = 0
                         \/ d = "Down" /\ p.y = p.max_y
                         \/ d = "Left" /\ p.x = 0
                         \/ d = "Right" /\ p.x = p.max_x
        IN  IF at_border THEN last_call.out = None ELSE last_call.out = Some(Target)

\* On a grid of two rows or more, Down was refused on the last row.
C15_Witness ==
    /\ planar_kind = "BoundedPoint"
    /\ last_call.op = "get_adjacent" /\ last_call.args[1] = "Down"
    /\ last_call.from.max_y > 0 /\ last_call.from.y = last_call.from.max_y
    /\ last_call.out = None

\* n successive get_adjacent steps: the point reached, or None once one fails.
RECURSIVE StepByStep(_, _, _)
StepByStep(p, n, d) ==
    IF n = 0 THEN Some(p)
    ELSE LET q == get_adjacent(p, d)
         IN  IF q = None THEN None ELSE StepByStep(q[2], n - 1, d)

(* C16: stride_to(p, n, d) of a bounded point returns, for each of the eight  *)
(* directions, what n successive get_adjacent(d) steps return (absent once    *)
(* one of them leaves the grid), and never panics.                            *)
C16_StrideIsRepeatedAdjacent ==
    (planar_kind = "BoundedPoint" /\ last_call.op = "stride_to") =>
        last_call.out = StepByStep(last_call.from, last_call.args[1], last_call.args[2])

(* C17: distance 0 is the identity and always succeeds: stride_to(p, 0, d)    *)
(* returns p for each of the eight directions and jump_to(p, 0, h, 0, v)      *)
(* returns p, for bounded points and for raw pairs.                            *)
C17_ZeroDistanceIsIdentity ==
    /\ (last_call.op = "stride_to" /\ last_call.args[1] = 0) =>
          last_call.out = Some(last_call.from)
    /\ (last_call.op = "jump_to" /\ last_call.args[1] = 0 /\ last_call.args[3] = 0) =>
          last_call.out = Some(last_call.from)

(***************************************************************************)
(* The lazy neighbour sequences of libs/graph.rs: the four iterator        *)
(* structs the PlanarCoordinate trait hands out, driven by a consumer that *)
(* calls next() until it returns None.                                     *)
(***************************************************************************)

\* The trait's get_adjacent and jump_to, dispatched on the implementing type;
\* each is the set of outcomes the call can have.
planar_get_adjacent(kind, self, point_direction) ==
    IF kind = "BoundedPoint" THEN {get_adjacent(self, point_direction)}
    ELSE pair_get_adjacent(self, point_direction)

planar_jump_to(kind, self, horizontal_distance, horizontal_direction, vertical_distance, vertical_direction) ==
    IF kind = "BoundedPoint"
    THEN jump_to(self, horizontal_distance, horizontal_direction, vertical_distance,
                 vertical_direction)
    ELSE pair_jump_to(self, horizontal_distance, horizontal_direction, vertical_distance,
                      vertical_direction)

CardinalAdjacentIterator(p) == [struct |-> "CardinalAdjacentIterator", point |-> p, index |-> 0]

RadialAdjacentIterator(p) == [struct |-> "RadialAdjacentIterator", point |-> p, index |-> 0]

DirectionIntoIterator(p, point_direction) ==
    [struct |-> "DirectionIntoIterator", point |-> p, direction |-> point_direction]

JumpingIterator(p, horizontal_length, horizontal_direction, vertical_length, vertical_direction) ==
    [struct |-> "JumpingIterator", point |-> p,
     horizontal_length |-> horizontal_length,
     horizontal_direction |-> horizontal_direction,
     vertical_length |-> vertical_length,
     vertical_direction |-> vertical_direction]

\* Variant of adjacent_next that ends the sequence at the first direction whose
\* neighbour is absent instead of going on to the next direction.
RECURSIVE adjacent_next_stops_at_absent(_, _, _)
adjacent_next_stops_at_absent(kind, self, directions) ==
    IF self.index >= Len(directions) THEN {[out |-> None, self |-> self]}
    ELSE {[out |-> r, self |-> [self EXCEPT !.index = @ + 1]] :
             r \in planar_get_adjacent(kind, self.point, directions[self.index + 1])}

\* next() of CardinalAdjacentIterator and of RadialAdjacentIterator, which
\* differ in the direction table only: the set of (returned value, iterator
\* afterwards) pairs. An absent neighbour makes next() call itself again.
RECURSIVE adjacent_next(_, _, _)
adjacent_next(kind, self, directions) ==
    IF self.index >= Len(directions) THEN {[out |-> None, self |-> self]}
    ELSE LET advanced == [self EXCEPT !.index = @ + 1]
         IN  UNION {IF r = None THEN adjacent_next(kind, advanced, directions)
                    ELSE {[out |-> r, self |-> advanced]} :
                       r \in planar_get_adjacent(kind, self.point,
                                                 directions[self.index + 1])}

\* next() of DirectionIntoIterator: the neighbour in the direction, which
\* becomes the iterator's point when there is one.
direction_next(kind, self) ==
    {[out |-> r,
      self |-> IF r \in {None, Panics} THEN self ELSE [self EXCEPT !.point = r[2]]] :
        r \in planar_get_adjacent(kind, self.point, self.direction)}

\* next() of JumpingIterator: the point one jump away, which becomes the
\* iterator's point when there is one.
jumping_next(kind, self) ==
    {[out |-> r,
      self |-> IF r \in {None, Panics} THEN self ELSE [self EXCEPT !.point = r[2]]] :
        r \in planar_jump_to(kind, self.point, self.horizontal_length,
                             self.horizontal_direction, self.vertical_length,
                             self.vertical_direction)}

\* The points a sequence is requested from: every point of every grid up to
\* GridMax, and the raw pairs up to GridMax.
IterPoints(kind) ==
    IF kind = "BoundedPoint" THEN BoundedPoints ELSE (0 .. GridMax) \X (0 .. GridMax)

\* A fresh sequence is requested: one of the four into_iter_ methods.
IterInit ==
    /\ planar_kind \in {"BoundedPoint", "Pair"}
    /\ \E p \in IterPoints(planar_kind) :
          \/ iterator = CardinalAdjacentIterator(p)
          \/ iterator = RadialAdjacentIterator(p)
          \/ \E d \in PointDirection : iterator = DirectionIntoIterator(p, d)
          \/ \E hn \in Distances, h \in HorizontalDirection,
                vn \in Distances, v \in VerticalDirection :
                iterator = JumpingIterator(p, hn, h, vn, v)
    /\ yielded = <<>>
    /\ tick = 0
    /\ pc = "iterating"
    /\ queue = Idle /\ visited = Idle /\ result = Idle
    /\ initial = Idle /\ trace = Idle /\ MazeIdle /\ hops = Idle
    /\ VisitorIdle /\ coordinate = Idle /\ last_call = Idle /\ DirIdle /\ DayIdle

\* The consumer takes what next() returned: an item is yielded, None ends the
\* sequence, a panic ends the program. Only the adjacency sequences, which are
\* at most eight items long, are kept whole.
Pull(r) ==
    /\ iterator' = r.self
    /\ tick' = 1 - tick
    /\ pc' = IF r.out = None THEN "ended"
             ELSE IF r.out = Panics THEN "panicked" ELSE pc
    /\ yielded' = IF r.out \in {None, Panics} THEN yielded
                  ELSE IF iterator.struct \in {"CardinalAdjacentIterator",
                                               "RadialAdjacentIterator"}
                       THEN Append(yielded, r.out[2])
                       ELSE <<r.out[2]>>
    /\ UNCHANGED <<queue, visited, result, bfsVars, mazeVars, hops, visitorVars,
                   dirVars, dayVars, planar_kind, coordinate, last_call>>

CardinalNext ==
    /\ pc = "iterating" /\ iterator.struct = "CardinalAdjacentIterator"
    /\ \E r \in adjacent_next(planar_kind, iterator, CARDINAL_DIRECTIONS) : Pull(r)

RadialNext ==
    /\ pc = "iterating" /\ iterator.struct = "RadialAdjacentIterator"
    /\ \E r \in adjacent_next(planar_kind, iterator, RADIAL_DIRECTIONS) : Pull(r)

DirectionNext ==
    /\ pc = "iterating" /\ iterator.struct = "DirectionIntoIterator"
    /\ \E r \in direction_next(planar_kind, iterator) : Pull(r)

JumpingNext ==
    /\ pc = "iterating" /\ iterator.struct = "JumpingIterator"
    /\ \E r \in jumping_next(planar_kind, iterator) : Pull(r)

IterNext ==
    \/ CardinalNext
    \/ RadialNext
    \/ DirectionNext
    \/ JumpingNext

SpecIter == IterInit /\ [][IterNext]_vars

\* The consumer keeps pulling while the sequence has not ended.
FairSpecIter == SpecIter /\ WF_vars(IterNext)

(* C18: every lazy neighbour sequence yields finitely many points and then    *)
(* ends, whatever the point and the arguments; and the walk in one direction  *)
(* ends exactly at the first step where get_adjacent is absent.               *)
C18_EverySequenceEnds ==
    /\ <>(pc = "ended")
    /\ [][(iterator.struct = "DirectionIntoIterator" /\ pc = "iterating") =>
             (pc' = "ended" <=>
                 planar_get_adjacent(planar_kind, iterator.point, iterator.direction)
                    = {None})]_vars

\* The point one step from p in direction d on an unbounded plane, and whether
\* it is a point of p's grid (of the quarter plane, for a raw (y, x) pair).
OneStep(kind, p, d) ==
    IF kind = "BoundedPoint"
    THEN [p EXCEPT !.x = @ + Step8(d)[1], !.y = @ + Step8(d)[2]]
    ELSE <<p[1] + Step8(d)[2], p[2] + Step8(d)[1]>>

OnGrid(kind, q) == IF kind = "BoundedPoint" THEN InRange(q) ELSE q[1] >= 0 /\ q[2] >= 0

PresentNeighbours(kind, p, directions) ==
    {q \in {OneStep(kind, p, d) : d \in directions} : OnGrid(kind, q)}

IsCorner(p) == p.max_x >= 1 /\ p.max_y >= 1 /\ p.x \in {0, p.max_x} /\ p.y \in {0, p.max_y}

IsInterior(p) == 0 < p.x /\ p.x < p.max_x /\ 0 < p.y /\ p.y < p.max_y

(* C19: a finished cardinal neighbour sequence of p has yielded exactly the   *)
(* neighbours of p that get_adjacent has in the four cardinal directions,     *)
(* each once, and a finished radial sequence the same over the eight          *)
(* directions; on a grid of 2 by 2 cells or more that is 2 and 3 points at a  *)
(* corner and 4 and 8 at an interior point.                                   *)
C19_AdjacentSequencesYieldPresentNeighbours ==
    (pc = "ended" /\ iterator.struct \in {"CardinalAdjacentIterator",
                                          "RadialAdjacentIterator"}) =>
        LET cardinal == iterator.struct = "CardinalAdjacentIterator"
            directions == IF cardinal THEN CardinalDirection ELSE PointDirection
            p == iterator.point
        IN  /\ {yielded[i] : i \in 1 .. Len(yielded)}
                  = PresentNeighbours(planar_kind, p, directions)
            /\ \A i, j \in 1 .. Len(yielded) : yielded[i] = yielded[j] => i = j
            /\ (planar_kind = "BoundedPoint" /\ IsCorner(p)) =>
                  Len(yielded) = IF cardinal THEN 2 ELSE 3
            /\ (planar_kind = "BoundedPoint" /\ IsInterior(p)) =>
                  Len(yielded) = IF cardinal THEN 4 ELSE 8

\* The radial sequence of a corner of a grid of 2 by 2 cells or more ended
\* after three points: five directions were skipped.
C19_Witness ==
    /\ pc = "ended" /\ iterator.struct = "RadialAdjacentIterator"
    /\ planar_kind = "BoundedPoint" /\ IsCorner(iterator.point)
    /\ Len(yielded) = 3

(***************************************************************************)
(* The Direction trait of libs/graph.rs: the 8-way PointDirection and its  *)
(* four subenums, each with its own impl of get_opposite, get_clockwise    *)
(* and get_counter_clockwise.                                              *)
(***************************************************************************)

point_get_opposite(self) ==
    CASE self = "Up" -> "Down"
      [] self = "Down" -> "Up"
      [] self = "Left" -> "Right"
      [] self = "Right" -> "Left"
      [] self = "UpRight" -> "DownLeft"
      [] self = "UpLeft" -> "DownRight"
      [] self = "DownRight" -> "UpLeft"
      [] self = "DownLeft" -> "DownRight"

\* Variant of get_clockwise that turns Up by a quarter instead of an eighth.
point_get_clockwise_skips(self) ==
    CASE self = "Up" -> "Right"
      [] self = "UpRight" -> "Right"
      [] self = "Right" -> "DownRight"
      [] self = "DownRight" -> "Down"
      [] self = "Down" -> "DownLeft"
      [] self = "DownLeft" -> "Left"
      [] self = "Left" -> "UpLeft"
      [] self = "UpLeft" -> "Up"

point_get_clockwise(self) ==
    CASE self = "Up" -> "UpRight"
      [] self = "UpRight" -> "Right"
      [] self = "Right" -> "DownRight"
      [] self = "DownRight" -> "Down"
      [] self = "Down" -> "DownLeft"
      [] self = "DownLeft" -> "Left"
      [] self = "Left" -> "UpLeft"
      [] self = "UpLeft" -> "Up"

point_get_counter_clockwise(self) ==
    CASE self = "Up" -> "UpLeft"
      [] self = "UpLeft" -> "Left"
      [] self = "Left" -> "DownLeft"
      [] self = "DownLeft" -> "Down"
      [] self = "Down" -> "DownRight"
      [] self = "DownRight" -> "Right"
      [] self = "Right" -> "UpRight"
      [] self = "UpRight" -> "Up"

cardinal_get_opposite(self) ==
    CASE self = "Up" -> "Down"
      [] self = "Down" -> "Up"
      [] self = "Left" -> "Right"
      [] self = "Right" -> "Left"

diagnal_get_opposite(self) ==
    CASE self = "UpRight" -> "DownLeft"
      [] self = "UpLeft" -> "DownRight"
      [] self = "DownRight" -> "UpLeft"
      [] self = "DownLeft" -> "UpRight"

diagnal_get_clockwise(self) ==
    CASE self = "UpRight" -> "DownRight"
      [] self = "UpLeft" -> "UpRight"
      [] self = "DownRight" -> "DownLeft"
      [] self = "DownLeft" -> "UpLeft"

diagnal_get_counter_clockwise(self) ==
    CASE self = "UpRight" -> "UpLeft"
      [] self = "UpLeft" -> "DownLeft"
      [] self = "DownRight" -> "UpRight"
      [] self = "DownLeft" -> "DownRight"

point_get_rotation(self, other) ==
    CASE self = other -> "Zero"
      [] point_get_clockwise(self) = other -> "FortyFive"
      [] point_get_clockwise(point_get_clockwise(self)) = other -> "Ninety"
      [] point_get_counter_clockwise(point_get_opposite(self)) = other -> "OneHundredThirtyFive"
      [] point_get_opposite(self) = other -> "OneHundredEighty"
      [] point_get_clockwise(point_get_opposite(self)) = other -> "TwoHundredFive"
      [] point_get_counter_clockwise(point_get_counter_clockwise(self)) = other
            -> "TwoHundredSeventy"
      [] OTHER -> "ThreeHundredFive"

cardinal_get_rotation(self, other) ==
    CASE self = other -> "Zero"
      [] cardinal_get_opposite(self) = other -> "OneHundredEighty"
      [] cardinal_get_counter_clockwise(self) = other -> "TwoHundredSeventy"
      [] OTHER -> "Ninety"

diagnal_get_rotation(self, other) ==
    CASE self = other -> "Zero"
      [] diagnal_get_opposite(self) = other -> "OneHundredEighty"
      [] diagnal_get_counter_clockwise(self) = other -> "TwoHundredSeventy"
      [] OTHER -> "Ninety"

horizontal_get_rotation(self, other) == IF self = other THEN "Zero" ELSE "Ninety"

vertical_get_rotation(self, other) == IF self = other THEN "Zero" ELSE "Ninety"

\* HorizontalDirection: the three methods have one and the same body.
horizontal_get_opposite(self) ==
    CASE self = "Left" -> "Right"
      [] self = "Right" -> "Left"

horizontal_get_clockwise(self) ==
    CASE self = "Left" -> "Right"
      [] self = "Right" -> "Left"

horizontal_get_counter_clockwise(self) ==
    CASE self = "Left" -> "Right"
      [] self = "Right" -> "Left"

\* VerticalDirection: likewise.
vertical_get_opposite(self) ==
    CASE self = "Up" -> "Down"
      [] self = "Down" -> "Up"

vertical_get_clockwise(self) ==
    CASE self = "Up" -> "Down"
      [] self = "Down" -> "Up"

vertical_get_counter_clockwise(self) ==
    CASE self = "Up" -> "Down"
      [] self = "Down" -> "Up"

\* The five types that implement Direction, and the values of each.
DirectionTypes ==
    {"PointDirection", "CardinalDirection", "DiagnalDirection", "HorizontalDirection",
     "VerticalDirection"}

ValuesOf(type) ==
    CASE type = "PointDirection" -> PointDirection
      [] type = "CardinalDirection" -> CardinalDirection
      [] type = "DiagnalDirection" -> DiagnalDirection
      [] type = "HorizontalDirection" -> HorizontalDirection
      [] type = "VerticalDirection" -> VerticalDirection

\* Static dispatch of the three trait methods on the type of self.
get_opposite(d) ==
    [d EXCEPT !.value =
        CASE d.type = "PointDirection" -> point_get_opposite(@)
          [] d.type = "CardinalDirection" -> cardinal_get_opposite(@)
          [] d.type = "DiagnalDirection" -> diagnal_get_opposite(@)
          [] d.type = "HorizontalDirection" -> horizontal_get_opposite(@)
          [] d.type = "VerticalDirection" -> vertical_get_opposite(@)]

get_clockwise(d) ==
    [d EXCEPT !.value =
        CASE d.type = "PointDirection" -> point_get_clockwise(@)
          [] d.type = "CardinalDirection" -> cardinal_get_clockwise(@)
          [] d.type = "DiagnalDirection" -> diagnal_get_clockwise(@)
          [] d.type = "HorizontalDirection" -> horizontal_get_clockwise(@)
          [] d.type = "VerticalDirection" -> vertical_get_clockwise(@)]

get_counter_clockwise(d) ==
    [d EXCEPT !.value =
        CASE d.type = "PointDirection" -> point_get_counter_clockwise(@)
          [] d.type = "CardinalDirection" -> cardinal_get_counter_clockwise(@)
          [] d.type = "DiagnalDirection" -> diagnal_get_counter_clockwise(@)
          [] d.type = "HorizontalDirection" -> horizontal_get_counter_clockwise(@)
          [] d.type = "VerticalDirection" -> vertical_get_counter_clockwise(@)]

get_rotation(d, other) ==
    CASE d.type = "PointDirection" -> point_get_rotation(d.value, other.value)
      [] d.type = "CardinalDirection" -> cardinal_get_rotation(d.value, other.value)
      [] d.type = "DiagnalDirection" -> diagnal_get_rotation(d.value, other.value)
      [] d.type = "HorizontalDirection" -> horizontal_get_rotation(d.value, other.value)
      [] d.type = "VerticalDirection" -> vertical_get_rotation(d.value, other.value)

\* The longest chain of method calls followed from one value.
MaxTurns == 2

\* The longest chain of calls of one and the same method: a full turn.
MaxCycle == 8

\* Any methods are chained up to MaxTurns calls, one method alone up to MaxCycle.
MayTurn(method) ==
    \/ Len(turn_log) < MaxTurns
    \/ /\ Len(turn_log) < MaxCycle
       /\ \A i \in 1 .. Len(turn_log) : turn_log[i].method = method

DirectionInit ==
    /\ \E type \in DirectionTypes :
          \E value \in ValuesOf(type) : heading = [type |-> type, value |-> value]
    /\ turn_log = <<>>
    /\ pc = "turning"
    /\ queue = Idle /\ visited = Idle /\ result = Idle
    /\ initial = Idle /\ trace = Idle /\ MazeIdle /\ hops = Idle
    /\ VisitorIdle /\ PlanarIdle /\ IterIdle /\ DayIdle

\* The value held is replaced by what the method returned for it.
Turned(method, to) ==
    /\ heading' = to
    /\ turn_log' = Append(turn_log, [method |-> method, from |-> heading, to |-> to])
    /\ UNCHANGED <<queue, visited, result, pc, bfsVars, mazeVars, hops, visitorVars,
                   planarVars, iterVars, dayVars>>

GetOpposite ==
    /\ pc = "turning" /\ MayTurn("get_opposite")
    /\ Turned("get_opposite", get_opposite(heading))

GetClockwise ==
    /\ pc = "turning" /\ MayTurn("get_clockwise")
    /\ Turned("get_clockwise", get_clockwise(heading))

GetCounterClockwise ==
    /\ pc = "turning" /\ MayTurn("get_counter_clockwise")
    /\ Turned("get_counter_clockwise", get_counter_clockwise(heading))

\* get_rotation borrows self and another value of the same type and returns
\* a RotationDegrees; the value held stays.
GetRotation ==
    /\ pc = "turning" /\ Len(turn_log) < MaxTurns
    /\ \E value \in ValuesOf(heading.type) :
          LET other == [type |-> heading.type, value |-> value]
          IN  turn_log' = Append(turn_log, [method |-> "get_rotation", from |-> heading,
                                            to |-> heading, other |-> other,
                                            out |-> get_rotation(heading, other)])
    /\ UNCHANGED <<queue, visited, result, pc, bfsVars, mazeVars, hops, visitorVars,
                   planarVars, iterVars, dayVars, heading>>

TurnNext ==
    \/ GetOpposite
    \/ GetClockwise
    \/ GetCounterClockwise
    \/ GetRotation

SpecDirection == DirectionInit /\ [][TurnNext]_vars

(* C20: get_opposite is an involution: two get_opposite calls in a row give   *)
(* back the direction they started from, for each of the eight PointDirection *)
(* values and for every value of the cardinal, diagonal, horizontal and       *)
(* vertical subsets.                                                          *)
C20_OppositeIsInvolution ==
    \A i \in 1 .. (Len(turn_log) - 1) :
        (turn_log[i].method = "get_opposite" /\ turn_log[i + 1].method = "get_opposite") =>
            turn_log[i + 1].to = turn_log[i].from

\* The calls i .. i + n - 1 of the chain are n calls of the one method.
Repeated(method, i, n) ==
    /\ i + n - 1 <= Len(turn_log)
    /\ \A j \in i .. (i + n - 1) : turn_log[j].method = method

(* C21: get_clockwise applied 8 times in a row to a PointDirection, or 4      *)
(* times to a CardinalDirection, gives back the direction it started from and *)
(* passes through every value of the type on the way; likewise                *)
(* get_counter_clockwise.                                                     *)
C21_FullTurnVisitsEveryValue ==
    \A method \in {"get_clockwise", "get_counter_clockwise"} :
        \A i \in 1 .. Len(turn_log) :
            LET n == IF heading.type = "PointDirection" THEN 8 ELSE 4
            IN  (heading.type \in {"PointDirection", "CardinalDirection"}
                    /\ Repeated(method, i, n)) =>
                    /\ turn_log[i + n - 1].to = turn_log[i].from
                    /\ {turn_log[j].to.value : j \in i .. (i + n - 1)}
                          = ValuesOf(heading.type)

\* Eight get_clockwise calls in a row on a PointDirection.
C21_Witness ==
    /\ heading.type = "PointDirection"
    /\ Repeated("get_clockwise", 1, 8)

\* The eight directions clockwise round the compass from Up, the four cardinal
\* ones likewise, and the classes of RotationDegrees in ascending order.
Compass == <<"Up", "UpRight", "Right", "DownRight", "Down", "DownLeft", "Left", "UpLeft">>

CardinalCompass == <<"Up", "Right", "Down", "Left">>

RotationClasses ==
    <<"Zero", "FortyFive", "Ninety", "OneHundredThirtyFive", "OneHundredEighty",
      "TwoHundredFive", "TwoHundredSeventy", "ThreeHundredFive">>

PlaceIn(compass, value) == CHOOSE i \in 1 .. Len(compass) : compass[i] = value

\* How many places clockwise round the compass b lies from a.
ClockwiseSteps(compass, a, b) ==
    (PlaceIn(compass, b) - PlaceIn(compass, a) + Len(compass)) % Len(compass)

(* C22: get_rotation(a, b) on PointDirection returns the k-th of the eight    *)
(* classes (Zero, FortyFive, ..., ThreeHundredFive) exactly when b is a       *)
(* turned clockwise k times by 45 degrees, so the eight values of b get eight *)
(* distinct classes; on CardinalDirection it returns Zero, Ninety,            *)
(* OneHundredEighty or TwoHundredSeventy exactly when b is a turned clockwise *)
(* 0, 1, 2 or 3 times by 90 degrees.                                          *)
C22_RotationIsClockwiseAngle ==
    \A i \in 1 .. Len(turn_log) :
        turn_log[i].method = "get_rotation" =>
            LET a == turn_log[i].from.value
                b == turn_log[i].other.value
            IN  /\ heading.type = "PointDirection" =>
                      turn_log[i].out = RotationClasses[ClockwiseSteps(Compass, a, b) + 1]
                /\ heading.type = "CardinalDirection" =>
                      turn_log[i].out
                         = RotationClasses[2 * ClockwiseSteps(CardinalCompass, a, b) + 1]

\* The column and the row of a point of either kind.
ColumnOf(kind, p) == IF kind = "BoundedPoint" THEN p.x ELSE p[2]

RowOf(kind, p) == IF kind = "BoundedPoint" THEN p.y ELSE p[1]

(* C23 as stated: a.relative_position_to(b) says where b lies relative to a:  *)
(* the horizontal component is Right exactly when b.x > a.x and Left          *)
(* otherwise, the vertical component is Down exactly when b.y > a.y and Up    *)
(* otherwise, for bounded points and raw pairs alike.                         *)
C23_ClassifiesOtherRelativeToSelf ==
    last_call.op = "relative_position_to" =>
        LET a == last_call.from
            b == last_call.args[1]
        IN  /\ last_call.out[1] = "Right" <=> ColumnOf(planar_kind, b) > ColumnOf(planar_kind, a)
            /\ last_call.out[2] = "Down" <=> RowOf(planar_kind, b) > RowOf(planar_kind, a)

(* C23: a.relative_position_to(b) says where a lies relative to b: the        *)
(* horizontal component is Right exactly when a.x > b.x and Left otherwise,   *)
(* the vertical component is Down exactly when a.y > b.y and Up otherwise, so *)
(* equal x is always classified Left and equal y always Up, for bounded       *)
(* points and raw pairs alike.                                                *)
C23_ClassifiesSelfRelativeToOther ==
    last_call.op = "relative_position_to" =>
        LET a == last_call.from
            b == last_call.args[1]
        IN  /\ last_call.out[1] \in HorizontalDirection
            /\ last_call.out[2] \in VerticalDirection
            /\ last_call.out[1] = "Right" <=> ColumnOf(planar_kind, a) > ColumnOf(planar_kind, b)
            /\ last_call.out[2] = "Down" <=> RowOf(planar_kind, a) > RowOf(planar_kind, b)

\* A point was compared with a point of its own column on a lower row: the
\* tie in x was classified Left, and the point itself as the upper one.
C23_Witness ==
    /\ last_call.op = "relative_position_to"
    /\ ColumnOf(planar_kind, last_call.from) = ColumnOf(planar_kind, last_call.args[1])
    /\ RowOf(planar_kind, last_call.from) < RowOf(planar_kind, last_call.args[1])
    /\ last_call.out = <<"Left", "Up">>

\* The number of times get_adjacent yielded k over the whole run: the edges
\* into k in the exploration order.
IncomingEdges(k) ==
    Cardinality({<<i, j>> \in (1 .. Len(trace)) \X (1 .. 2) :
                    /\ trace[i].op = "get_adjacent"
                    /\ j <= Len(trace[i].b)
                    /\ trace[i].b[j] = k})

InitialKeys == {initial[i] : i \in 1 .. Len(initial)}

\* The exploration ran until the queue was empty.
FullExploration ==
    /\ pc = "returned"
    /\ trace # <<>>
    /\ Is(trace[Len(trace)], "return", -1, None)

DenseAdjacentLists(b) == {<<>>} \cup {<<k>> : k \in KeysOf(b)}

\* .filter(|adjacent| !visitor.has_visited(adjacent)).for_each(.. push_back ..)
RECURSIVE dense_for_each_adjacent(_, _, _, _)
dense_for_each_adjacent(b, adjacent, store, q) ==
    IF adjacent = <<>> THEN q
    ELSE dense_for_each_adjacent(b, Tail(adjacent), store,
                                 IF HasVisited(b, store, Head(adjacent)) THEN q
                                 ELSE push_back(q, Head(adjacent)))

\* The initial queue holds up to two keys; trace keeps every key enqueued.
DenseBfsInit ==
    /\ backend \in DenseBackends
    /\ visitor = FreshStore(backend)
    /\ call_log = <<>>
    /\ initial \in {<<>>} \cup {<<a>> : a \in KeysOf(backend)}
                      \cup {<<a, b>> : a \in KeysOf(backend), b \in KeysOf(backend)}
    /\ queue = initial
    /\ trace = initial
    /\ result = None
    /\ pc = "loop"
    /\ visited = Idle /\ MazeIdle /\ hops = Idle /\ PlanarIdle /\ IterIdle /\ DirIdle /\ DayIdle

\* What every iteration that gets past visitor.visit does to the visitor.
DenseVisited(was) ==
    LET r == Visit(backend, visitor, Head(queue))
    IN  /\ pc = "loop" /\ queue # <<>> /\ Len(call_log) < MaxCalls
        /\ r # Panic
        /\ r.was = was
        /\ visitor' = r.store
        /\ call_log' = Append(call_log, [op |-> "visit", key |-> Head(queue),
                                         answer |-> r.was])

\* visitor.visit(&value) panics in expect("Exists").
DenseVisitPanics ==
    /\ pc = "loop" /\ queue # <<>>
    /\ Visit(backend, visitor, Head(queue)) = Panic
    /\ pc' = "panicked"
    /\ queue' = Tail(queue)
    /\ call_log' = Append(call_log, [op |-> "visit_panicked", key |-> Head(queue),
                                     answer |-> FALSE])
    /\ UNCHANGED <<visited, result, initial, trace, mazeVars, hops, planarVars, iterVars,
                   dirVars, dayVars, backend, visitor>>

DenseRepeatReturn ==
    /\ DenseVisited(TRUE)
    /\ result' = Some(Head(queue))
    /\ pc' = "returned"
    /\ queue' = Tail(queue)
    /\ UNCHANGED <<visited, initial, trace, mazeVars, hops, planarVars, iterVars, dirVars, dayVars,
                   backend>>

DenseRepeatContinue ==
    /\ DenseVisited(TRUE)
    /\ queue' = Tail(queue)
    /\ UNCHANGED <<visited, result, pc, initial, trace, mazeVars, hops, planarVars,
                   iterVars, dirVars, dayVars, backend>>

DenseFirstVisitReturn ==
    /\ DenseVisited(FALSE)
    /\ result' = Some(Head(queue))
    /\ pc' = "returned"
    /\ queue' = Tail(queue)
    /\ UNCHANGED <<visited, initial, trace, mazeVars, hops, planarVars, iterVars, dirVars, dayVars,
                   backend>>

DenseExpand ==
    /\ DenseVisited(FALSE)
    /\ \E adjacent \in DenseAdjacentLists(backend) :
          /\ queue' = dense_for_each_adjacent(backend, adjacent, visitor', Tail(queue))
          /\ trace' = trace \o SubSeq(queue', Len(queue), Len(queue'))
    /\ UNCHANGED <<visited, result, pc, initial, mazeVars, hops, planarVars, iterVars,
                   dirVars, dayVars, backend>>

DenseQueueEmpty ==
    /\ pc = "loop" /\ queue = <<>>
    /\ result' = None
    /\ pc' = "returned"
    /\ UNCHANGED <<queue, visited, initial, trace, mazeVars, hops, toolVars>>

DenseBfsNext ==
    \/ DenseVisitPanics
    \/ DenseRepeatReturn
    \/ DenseRepeatContinue
    \/ DenseFirstVisitReturn
    \/ DenseExpand
    \/ DenseQueueEmpty

SpecDenseBFS == DenseBfsInit /\ [][DenseBfsNext]_vars

\* The key lies past the dimensions the store was sized for.
OutsideKey(b, key) ==
    LET id == IdentityOf(b, key)
    IN  CASE b = "Array3Point" -> id[1] \notin VisitorPoints
          [] b = "Array3Pair" -> id[1] \notin VisitorCells
          [] b \in {"Array2Point", "Array2PointPayload", "Array2OptionPoint"} ->
                id \notin VisitorPoints
          [] b \in {"Array2Pair", "Array2PairPayload", "Array2OptionPair"} ->
                id \notin VisitorCells
          [] b \in {"Vec", "VecPayload"} -> id \notin 0 .. 1

\* The cells of the store that are marked as seen.
MarkedCells ==
    {i \in DOMAIN visitor : IF backend \in OptionBackends THEN visitor[i] # None
                            ELSE visitor[i]}

\* The keys (payloads apart) whose visit has returned.
VisitedIdentities ==
    {IdentityOf(backend, call_log[i].key) :
        i \in {j \in 1 .. Len(call_log) : call_log[j].op = "visit"}}

(* C25: on a dense visitor, visit on a key outside the store's dimensions     *)
(* never returns and never marks a cell (the marked cells are always one per  *)
(* in-range key visited); a breadth_first_search that dequeues such a key     *)
(* panics there, leaving the store as it was, and neither returns a value     *)
(* computed from that key nor runs to the end with such a key enqueued.       *)
C25_OutsideKeyPanicsAtDequeue ==
    /\ [](/\ \A i \in 1 .. Len(call_log) :
               call_log[i].op = "visit" => ~OutsideKey(backend, call_log[i].key)
          /\ Cardinality(MarkedCells) = Cardinality(VisitedIdentities)
          /\ (pc = "returned" /\ result # None) => ~OutsideKey(backend, result[2])
          /\ (pc = "returned" /\ result = None) =>
                \A i \in 1 .. Len(trace) : ~OutsideKey(backend, trace[i]))
    /\ [][(pc = "loop" /\ queue # <<>> /\ OutsideKey(backend, Head(queue))) =>
             (pc' = "panicked" /\ visitor' = visitor /\ result' = result)]_vars

\* A key past the store that get_adjacent yielded for a visited state passed
\* the has_visited filter, was enqueued, and the run panicked when it was
\* dequeued, with the cell of the visited state still the only one marked.
C25_Witness ==
    /\ pc = "panicked"
    /\ Len(call_log) = 2
    /\ call_log[2].op = "visit_panicked"
    /\ OutsideKey(backend, call_log[2].key)
    /\ initial = <<call_log[1].key>>
    /\ Cardinality(MarkedCells) = 1

(***************************************************************************)
(* Day 20: run, shortest_path_full, best_shortcuts and                     *)
(* worthy_cheats_from_tile. The locals of the program are the fields of    *)
(* the record shortcuts.                                                   *)
(***************************************************************************)

\* The widest column index of the tracks; they have two rows.
TrackMaxX == 2

\* The tracks: Start in the top left corner, End on any other tile, Wall on
\* any of the rest.
Tracks ==
    LET cells == {0, 1} \X (0 .. TrackMaxX)
        rest  == cells \ {<<0, 0>>}
    IN  {MakeMaze(TrackMaxX, 1, <<0, 0>>, e, w) : e \in rest, w \in SUBSET rest}

\* The command line: --cheat-threshold and --target-savings.
CheatThresholds == {2, 3}
TargetSavings == {0, 2}

\* The two rayon worker threads of the model.
Workers == {1, 2}

\* input.indexed_iter().find(..).map(from_table_index).expect("Exists")
find_tile(track, kind) ==
    LET i == CHOOSE i \in DOMAIN track.table : track.table[i] = kind
    IN  BoundedPoint(i[2], i[1], track.max_x, track.max_y)

\* AHashMap::insert
map_insert(map, key, value) ==
    [k \in DOMAIN map \cup {key} |-> IF k = key THEN value ELSE map[k]]

\* (0..distance).map(|offset| (offset, distance - offset))
RECURSIVE quarter_ring(_, _)
quarter_ring(distance, offset) ==
    IF offset >= distance THEN <<>>
    ELSE <<<<offset, distance - offset>>>> \o quarter_ring(distance, offset + 1)

\* generate_manhattan_quarter_points: the rings of distance 1 ..= distance.
RECURSIVE generate_manhattan_quarter_points(_)
generate_manhattan_quarter_points(distance) ==
    IF distance = 0 THEN <<>>
    ELSE generate_manhattan_quarter_points(distance - 1) \o quarter_ring(distance, 0)

\* usize arithmetic without overflow checks: the result wraps round 2^64
\* (written as USIZE_MAX + 1 here).
wrapping_sub(a, b) == IF a >= b THEN a - b ELSE USIZE_MAX - (b - a - 1)

wrapping_add(a, b) == IF a > USIZE_MAX - b THEN a - (USIZE_MAX - b) - 1 ELSE a + b

\* The tile a cheat of (p1, p2) in the quarter of direction lands on; the
\* coordinates and cheat lengths stay far below usize::MAX, so jump_to has
\* one outcome.
cheat_landing(tile, direction, point) ==
    LET swap == direction \in {"Right", "Left"}
        veritcal == IF direction \in {"Up", "Left"} THEN "Up" ELSE "Down"
        horizontal == IF direction \in {"Up", "Right"} THEN "Right" ELSE "Left"
        p1 == IF swap THEN point[2] ELSE point[1]
        p2 == IF swap THEN point[1] ELSE point[2]
    IN  CHOOSE out \in jump_to(tile, p2, horizontal, p1, veritcal) : TRUE

\* worthy_cheats_from_tile: the number of (direction, point) pairs whose
\* landing tile is on the path, later than the tile, and saves at least
\* target_savings. With overflow checks a subtraction that underflows panics;
\* without them it wraps. Some(n) is the return of n.
worthy_cheats_from_tile(tile, length, baseline, target_savings, points, path, overflow_checks) ==
    LET later == {c \in CardinalDirection \X DOMAIN points :
                     LET landing == cheat_landing(tile, c[1], points[c[2]])
                     IN  /\ landing # None
                         /\ landing[2] \in DOMAIN path
                         /\ length < path[landing[2]]}
        other_length(c) == path[cheat_landing(tile, c[1], points[c[2]])[2]]
        distance(c) == points[c[2]][1] + points[c[2]][2]
        score(c) == wrapping_add(wrapping_sub(baseline, other_length(c)), length + distance(c))
        underflows(c) == baseline < other_length(c) \/ baseline < score(c)
    IN  IF overflow_checks /\ \E c \in later : underflows(c) THEN Panics
        ELSE Some(Cardinality({c \in later :
                                  wrapping_sub(baseline, score(c)) >= target_savings}))

\* run: start and end are looked up, shortest_path_full starts with the start
\* tile in its queue; the build has overflow checks or not.
ShortcutsInit ==
    /\ \E track \in Tracks, cheat_threshold \in CheatThresholds,
          target_savings \in TargetSavings, overflow_checks \in BOOLEAN :
          shortcuts = [track |-> track,
                       start |-> find_tile(track, "Start"),
                       end |-> find_tile(track, "End"),
                       cheat_threshold |-> cheat_threshold,
                       target_savings |-> target_savings,
                       overflow_checks |-> overflow_checks,
                       queue |-> <<<<find_tile(track, "Start"), 0>>>>,
                       visited |-> {},
                       result |-> <<>>,
                       baseline |-> None,
                       points |-> <<>>,
                       pending |-> {},
                       total |-> 0,
                       sequential |-> None,
                       partial |-> [w \in Workers |-> Some(0)],
                       parallel |-> None]
    /\ pc = "shortest_path_full"
    /\ queue = Idle /\ visited = Idle /\ result = Idle
    /\ initial = Idle /\ trace = Idle /\ MazeIdle /\ hops = Idle
    /\ VisitorIdle /\ PlanarIdle /\ IterIdle /\ DirIdle /\ patrol = Idle

\* What best_shortcuts starts from once shortest_path_full has returned path:
\* baseline is path.get(end).expect("exists").
BestShortcutsCalled(path) ==
    IF shortcuts.end \in DOMAIN path
    THEN /\ pc' = "sequential"
         /\ shortcuts' = [shortcuts EXCEPT
                             !.queue = <<>>, !.result = path,
                             !.baseline = Some(path[shortcuts.end]),
                             !.points = generate_manhattan_quarter_points(shortcuts.cheat_threshold),
                             !.pending = DOMAIN path \ {shortcuts.end}]
    ELSE /\ pc' = "panicked"
         /\ shortcuts' = [shortcuts EXCEPT !.queue = <<>>, !.result = path]

\* The popped tile is the end: it is recorded and the loop breaks.
FullEnd ==
    /\ pc = "shortest_path_full" /\ shortcuts.queue # <<>>
    /\ Head(shortcuts.queue)[1] = shortcuts.end
    /\ BestShortcutsCalled(map_insert(shortcuts.result, shortcuts.end,
                                      Head(shortcuts.queue)[2]))
    /\ UNCHANGED <<queue, visited, result, bfsVars, mazeVars, hops, visitorVars, planarVars,
                   iterVars, dirVars, patrol>>

\* The popped tile is visited already: continue.
FullRepeat ==
    /\ pc = "shortest_path_full" /\ shortcuts.queue # <<>>
    /\ Head(shortcuts.queue)[1] # shortcuts.end
    /\ Head(shortcuts.queue)[1] \in shortcuts.visited
    /\ shortcuts' = [shortcuts EXCEPT !.queue = Tail(@)]
    /\ UNCHANGED <<queue, visited, result, pc, bfsVars, mazeVars, hops, visitorVars,
                   planarVars, iterVars, dirVars, patrol>>

\* The popped tile is marked and recorded; its neighbours that are not Wall
\* and not visited are pushed with length + 1.
FullExpand ==
    /\ pc = "shortest_path_full" /\ shortcuts.queue # <<>>
    /\ LET tile == Head(shortcuts.queue)[1]
           length == Head(shortcuts.queue)[2]
           seen == shortcuts.visited \cup {tile}
           adjacents ==
               SelectSeq(into_iter_cardinal_adjacent(tile, 1),
                         LAMBDA adjacent :
                            /\ get_from_table(adjacent, shortcuts.track.table)
                                  \in {Some("End"), Some("Start"), Some("Open")}
                            /\ adjacent \notin seen)
       IN  /\ tile # shortcuts.end
           /\ tile \notin shortcuts.visited
           /\ shortcuts' = [shortcuts EXCEPT
                               !.visited = seen,
                               !.result = map_insert(@, tile, length),
                               !.queue = hop_push(Tail(@), adjacents, length)]
    /\ UNCHANGED <<queue, visited, result, pc, bfsVars, mazeVars, hops, visitorVars,
                   planarVars, iterVars, dirVars, patrol>>

\* queue.pop_front() is None: the loop ends without the end tile.
FullExhausted ==
    /\ pc = "shortest_path_full" /\ shortcuts.queue = <<>>
    /\ BestShortcutsCalled(shortcuts.result)
    /\ UNCHANGED <<queue, visited, result, bfsVars, mazeVars, hops, visitorVars, planarVars,
                   iterVars, dirVars, patrol>>

\* worthy_cheats_from_tile as best_shortcuts calls it for one entry of path.
CheatsFrom(tile) ==
    worthy_cheats_from_tile(tile, shortcuts.result[tile], shortcuts.baseline[2],
                            shortcuts.target_savings, shortcuts.points,
                            shortcuts.result, shortcuts.overflow_checks)

\* parallel = false: path.iter() hands out the next entry, in the map's own
\* order; its count is added to the sum, or the call panics.
SequentialTile ==
    /\ pc = "sequential"
    /\ \E tile \in shortcuts.pending :
          LET count == CheatsFrom(tile)
          IN  shortcuts' =
                IF count = Panics
                THEN [shortcuts EXCEPT !.pending = DOMAIN shortcuts.result \ {shortcuts.end},
                                       !.sequential = Panics]
                ELSE [shortcuts EXCEPT !.pending = @ \ {tile}, !.total = @ + count[2]]
    /\ pc' = IF shortcuts'.sequential = Panics THEN "parallel" ELSE pc
    /\ UNCHANGED <<queue, visited, result, bfsVars, mazeVars, hops, visitorVars, planarVars,
                   iterVars, dirVars, patrol>>

\* parallel = false: the iterator is exhausted, sum() returns.
SequentialSum ==
    /\ pc = "sequential" /\ shortcuts.pending = {}
    /\ shortcuts' = [shortcuts EXCEPT !.sequential = Some(shortcuts.total),
                                      !.pending = DOMAIN shortcuts.result \ {shortcuts.end}]
    /\ pc' = "parallel"
    /\ UNCHANGED <<queue, visited, result, bfsVars, mazeVars, hops, visitorVars, planarVars,
                   iterVars, dirVars, patrol>>

\* parallel = true: a worker takes an entry nobody has taken, reads the shared
\* path and points, and adds the count to the sum it folds; a panic in the
\* closure is kept for the join.
ParallelTile ==
    /\ pc = "parallel"
    /\ \E tile \in shortcuts.pending :
          LET count == CheatsFrom(tile)
          IN  \E w \in Workers :
                shortcuts' =
                  IF count = Panics \/ shortcuts.partial[w] = Panics
                  THEN [shortcuts EXCEPT !.pending = @ \ {tile}, !.partial[w] = Panics]
                  ELSE [shortcuts EXCEPT !.pending = @ \ {tile},
                                         !.partial[w] = Some(@[2] + count[2])]
    /\ UNCHANGED <<queue, visited, result, pc, bfsVars, mazeVars, hops, visitorVars,
                   planarVars, iterVars, dirVars, patrol>>

sum_of_first_worker(partial) ==
    IF \E w \in Workers : partial[w] = Panics THEN Panics ELSE partial[1]

\* sum() of the parallel iterator: the sums the workers folded are added; a
\* panic of a worker is resumed in the caller.
parallel_sum(partial) ==
    IF \E w \in Workers : partial[w] = Panics THEN Panics
    ELSE Some(partial[1][2] + partial[2][2])

\* parallel = true: every entry is done and sum() returns.
ParallelSum ==
    /\ pc = "parallel" /\ shortcuts.pending = {}
    /\ shortcuts' = [shortcuts EXCEPT !.parallel = parallel_sum(shortcuts.partial)]
    /\ pc' = "returned"
    /\ UNCHANGED <<queue, visited, result, bfsVars, mazeVars, hops, visitorVars, planarVars,
                   iterVars, dirVars, patrol>>

ShortcutsNext ==
    \/ FullEnd
    \/ FullRepeat
    \/ FullExpand
    \/ FullExhausted
    \/ SequentialTile
    \/ SequentialSum
    \/ ParallelTile
    \/ ParallelSum

SpecShortcuts == ShortcutsInit /\ [][ShortcutsNext]_vars

\* C26: best_shortcuts with parallel = true returns what it returns with
\* parallel = false on the same inputs, whichever worker takes which entry of
\* path and in whatever order: the same count, or a panic in both.
C26_ParallelEqualsSequential ==
    (pc = "returned" /\ shortcuts # Idle) => shortcuts.parallel = shortcuts.sequential

\* Both workers have folded a positive count and the sums were added.
C26_Witness ==
    /\ pc = "returned" /\ shortcuts # Idle
    /\ shortcuts.parallel = shortcuts.sequential
    /\ shortcuts.parallel # Panics
    /\ shortcuts.partial[1] # Panics /\ shortcuts.partial[2] # Panics
    /\ shortcuts.partial[1][2] > 0 /\ shortcuts.partial[2][2] > 0

----------------------------------------------------------------------------
(* The two breadth-first loops that carry a hop count: shortest_path of     *)
(* day 18 and shortest_path_full of day 20, each up to its return.          *)

HopLoopsInit == UniformInit \/ ShortcutsInit

HopLoopsNext ==
    \/ HopEnd
    \/ HopRepeat
    \/ HopExpand
    \/ HopExhausted
    \/ FullEnd
    \/ FullRepeat
    \/ FullExpand
    \/ FullExhausted

SpecHopLoops == HopLoopsInit /\ [][HopLoopsNext]_vars

Touching(i, j) ==
    \/ i[1] = j[1] /\ (i[2] = j[2] + 1 \/ j[2] = i[2] + 1)
    \/ i[2] = j[2] /\ (i[1] = j[1] + 1 \/ j[1] = i[1] + 1)

\* The cells that n edges or fewer through passable cells lead to.
RECURSIVE Within(_, _, _)
Within(cells, from, n) ==
    IF n = 0 THEN {from}
    ELSE LET nearer == Within(cells, from, n - 1)
         IN  nearer \cup {c \in cells : \E v \in nearer : Touching(c, v)}

\* The minimum number of edges from one cell to another, None without a path.
MinHops(m, from, to) ==
    LET cells == Passable(m)
        most == Cardinality(cells)
    IN  IF to \notin Within(cells, from, most) THEN None
        ELSE Some(CHOOSE n \in 0 .. most :
                     /\ to \in Within(cells, from, n)
                     /\ n = 0 \/ to \notin Within(cells, from, n - 1))

CellOf(p) == <<p.y, p.x>>

----------------------------------------------------------------------------
\* The least cost in a queue that is not empty: the cost PriorityQueue::pop
\* hands out.
PoppedCost(q) == SetMin({q[i] : i \in DOMAIN q})

(* C28: in the priority-search loop of day 16 a pop leaves and adds only     *)
(* entries that cost as much as the popped one or more, so the costs of      *)
(* successive pops never decrease; the priority of an item in the queue is   *)
(* changed only to a strictly smaller cost; the cost at which an item is     *)
(* popped and marked visited is the least cost of a walk to it, and a        *)
(* visited item never comes back into the queue.                              *)
C28_PoppedCostsAreFinal ==
    /\ [][(maze # Idle /\ pc = "search" /\ DOMAIN queue # {} /\ queue' # queue) =>
             /\ \A i \in DOMAIN queue' : queue'[i] >= PoppedCost(queue)
             /\ \A i \in DOMAIN queue \cap DOMAIN queue' :
                   queue'[i] # queue[i] => queue'[i] < queue[i]
             /\ \A i \in DOMAIN queue :
                   IndexOf(i[1], i[2]) \in visited' \ visited =>
                      queue[i] = FromStart(maze)[<<i[1], CellOf(i[2])>>]]_vars
    /\ []((maze # Idle /\ pc = "search") =>
             \A i \in DOMAIN queue : IndexOf(i[1], i[2]) \notin visited)

\* An item whose priority was lowered while it waited in the queue has been
\* popped and marked visited.
C28_Witness ==
    /\ path_stat = "TotalSeats"
    /\ \E q1 \in proposed : \E q2 \in ProposedFor(q1.target) :
          /\ q1.cost > q2.cost /\ ProposerCost(q1) < ProposerCost(q2)
          /\ q1.target \in visited

----------------------------------------------------------------------------
\* The backward walk is a sequential loop: while it has a next step, or its
\* return, to take, it takes it.
FairSpecMaze == SpecMaze /\ WF_vars(WalkStep \/ ReturnSeats)

\* The entries of the predecessor map that have a predecessor in a set.
RECURSIVE Peel(_)
Peel(entries) ==
    LET kept == {idx \in entries :
                    \E pred \in visited_path[idx].prev :
                       IndexOf(pred[1], pred[2]) \in entries}
    IN  IF kept = entries THEN entries ELSE Peel(kept)

\* No entry of the predecessor map is its own predecessor, however far back.
PredecessorsAcyclic == Peel(DOMAIN visited_path) = {}

(* C29: the backward walk of find_all_shortest_paths always terminates; the  *)
(* predecessor map the forward search builds has no cycle; every             *)
(* predecessor is recorded by the step that pops it, at a priority strictly  *)
(* below the cost of the entry it is recorded in, and the cost the map holds *)
(* for a predecessor is strictly below the cost of the entry it precedes     *)
(* (the start state, which nothing precedes, keeps the cost the map was      *)
(* filled with).                                                              *)
C29_BackwardWalkTerminates ==
    /\ [](path_stat = "TotalSeats" =>
            /\ PredecessorsAcyclic
            /\ \A idx \in DOMAIN visited_path : \A pred \in visited_path[idx].prev :
                  /\ IndexOf(pred[1], pred[2]) \in visited
                  /\ \/ pred = <<"Right", start>>
                     \/ visited_path[IndexOf(pred[1], pred[2])].cost
                           < visited_path[idx].cost)
    /\ [][(path_stat = "TotalSeats" /\ pc = "search" /\ visited_path' # visited_path) =>
             \A idx \in DOMAIN visited_path :
                \A pred \in visited_path'[idx].prev \ visited_path[idx].prev :
                   /\ pred \in pop_candidates(queue)
                   /\ queue[pred] < visited_path'[idx].cost]_vars
    /\ (pc = "walk") ~> (pc = "returned")

\* The walk has returned after it went back through an entry with two
\* predecessors, over a chain of three entries or more.
C29_Witness ==
    /\ pc = "returned" /\ path_stat = "TotalSeats" /\ answer # None
    /\ answer[2] >= 3
    /\ \E idx \in DOMAIN visited_path :
          /\ Cardinality(visited_path[idx].prev) >= 2
          /\ <<idx[1], idx[2]>> \in {CellOf(p) : p \in on_shortest_path}

----------------------------------------------------------------------------
(* Day 6: the guard walk run(guard_position, guard_facing, lab) with its    *)
(* step run_step. The lab has three rows; the guard starts on the Guard     *)
(* cell facing Up, as the day's run passes it.                               *)

LabMaxX == 3

\* Every lab of three rows with one Guard cell and four obstructions at most,
\* the fewest that shut the guard in.
Labs ==
    LET cells == (0 .. 2) \X (0 .. LabMaxX)
    IN  {[max_x |-> LabMaxX, max_y |-> 2,
          table |-> [i \in cells |-> IF i = g THEN "Guard"
                                     ELSE IF i \in o THEN "Obstruction" ELSE "Open"]] :
            g \in cells, o \in {o \in SUBSET cells : Cardinality(o) <= 4}}

\* A step that turns the guard counter-clockwise at an obstruction.
run_step_turns_left(guard_facing, guard_position, lab) ==
    LET position == get_adjacent(guard_position, guard_facing)
    IN  IF position = None THEN None
        ELSE IF get_from_table(position[2], lab) = Some("Obstruction")
             THEN Some(<<cardinal_get_counter_clockwise(guard_facing), guard_position>>)
             ELSE Some(<<guard_facing, position[2]>>)

\* run_step: None off the grid; a clockwise turn on the spot before an
\* Obstruction; else the step forward.
run_step(guard_facing, guard_position, lab) ==
    LET position == get_adjacent(guard_position, guard_facing)
    IN  IF position = None THEN None
        ELSE IF get_from_table(position[2], lab) = Some("Obstruction")
             THEN Some(<<cardinal_get_clockwise(guard_facing), guard_position>>)
             ELSE Some(<<guard_facing, position[2]>>)

\* run up to its loop: visited is all false but for the guard's own state.
\* walked is the history of the states run_step has handed out.
PatrolInit ==
    /\ \E lab \in Labs :
          LET guard_position == find_tile(lab, "Guard")
              guard_facing == "Up"
          IN  patrol = [lab |-> lab,
                        guard_position |-> guard_position,
                        guard_facing |-> guard_facing,
                        visited |-> [i \in (0 .. lab.max_y) \X (0 .. lab.max_x) \X (0 .. 3) |->
                                       i = IndexOf(guard_facing, guard_position)],
                        walked |-> <<<<guard_facing, guard_position>>>>,
                        result |-> None]
    /\ pc = "patrol"
    /\ queue = Idle /\ visited = Idle /\ result = Idle
    /\ initial = Idle /\ trace = Idle /\ MazeIdle /\ hops = Idle
    /\ VisitorIdle /\ PlanarIdle /\ IterIdle /\ DirIdle /\ shortcuts = Idle

\* The state run_step hands out for the guard's state.
Stepped == run_step(patrol.guard_facing, patrol.guard_position, patrol.lab.table)

\* run_step returns a state that is not marked: mark it, the guard takes it.
RunMark ==
    /\ pc = "patrol" /\ Stepped # None
    /\ ~patrol.visited[IndexOf(Stepped[2][1], Stepped[2][2])]
    /\ patrol' = [patrol EXCEPT
                     !.visited[IndexOf(Stepped[2][1], Stepped[2][2])] = TRUE,
                     !.guard_facing = Stepped[2][1],
                     !.guard_position = Stepped[2][2],
                     !.walked = Append(@, Stepped[2])]
    /\ UNCHANGED <<queue, visited, result, pc, bfsVars, mazeVars, hops, visitorVars,
                   planarVars, iterVars, dirVars, shortcuts>>

\* run_step returns a state that is marked: return None.
RunRepeat ==
    /\ pc = "patrol" /\ Stepped # None
    /\ patrol.visited[IndexOf(Stepped[2][1], Stepped[2][2])]
    /\ patrol' = [patrol EXCEPT !.walked = Append(@, Stepped[2]), !.result = None]
    /\ pc' = "returned"
    /\ UNCHANGED <<queue, visited, result, bfsVars, mazeVars, hops, visitorVars, planarVars,
                   iterVars, dirVars, shortcuts>>

\* run_step returns None: the loop ends, return Some(visited).
RunLeave ==
    /\ pc = "patrol" /\ Stepped = None
    /\ patrol' = [patrol EXCEPT !.result = Some(patrol.visited)]
    /\ pc' = "returned"
    /\ UNCHANGED <<queue, visited, result, bfsVars, mazeVars, hops, visitorVars, planarVars,
                   iterVars, dirVars, shortcuts>>

PatrolNext ==
    \/ RunMark
    \/ RunRepeat
    \/ RunLeave

SpecPatrol == PatrolInit /\ [][PatrolNext]_vars

\* The loop of run goes on while it can.
FairSpecPatrol == SpecPatrol /\ WF_vars(PatrolNext)

----------------------------------------------------------------------------
(* The guard's walk from the words of the puzzle: a state is a facing and a *)
(* cell; the guard goes one cell forward, turns right on the spot when the  *)
(* cell ahead is obstructed, and is gone when the cell ahead is off the map. *)

RightOf(d) == CASE d = "Up" -> "Right" [] d = "Right" -> "Down"
                [] d = "Down" -> "Left" [] d = "Left" -> "Up"

GuardStep(lab, s) ==
    LET ahead == <<s[2][1] + Delta(s[1])[1], s[2][2] + Delta(s[1])[2]>>
    IN  IF ahead \notin DOMAIN lab.table THEN <<"Gone">>
        ELSE IF lab.table[ahead] = "Obstruction" THEN <<RightOf(s[1]), s[2]>>
        ELSE <<s[1], ahead>>

\* The states of the first n steps of the walk from s, and whether the guard
\* is gone by then.
RECURSIVE GuardWalk(_, _, _, _)
GuardWalk(lab, s, n, seen) ==
    IF n = 0 THEN [states |-> seen \cup {s}, gone |-> FALSE]
    ELSE LET next == GuardStep(lab, s)
         IN  IF next = <<"Gone">> THEN [states |-> seen \cup {s}, gone |-> TRUE]
             ELSE GuardWalk(lab, next, n - 1, seen \cup {s})

\* More steps than there are states: a walk still on the map then never leaves.
WholeWalk(lab) ==
    LET g == CHOOSE i \in DOMAIN lab.table : lab.table[i] = "Guard"
    IN  GuardWalk(lab, <<"Up", g>>, 4 * Cardinality(DOMAIN lab.table) + 1, {})

MarkedStates(marks) ==
    {<<c[1], <<c[2][1], c[2][2]>>>> :
        c \in {c \in CardinalDirection \X DOMAIN marks :
                  marks[c[2]] /\ c[2][3] = direction_to_index(c[1])}}

StateOf(item) == <<item[1], CellOf(item[2])>>

(* C30: run terminates for every lab. It returns the visited array, with    *)
(* exactly the states of the guard's walk marked, when the guard steps off  *)
(* the grid; it returns None exactly when the guard reaches a state it has  *)
(* been in before, which happens if and only if the walk never leaves.      *)
C30_GuardWalkTerminates ==
    /\ <>(pc = "returned")
    /\ [](pc = "returned" =>
            LET walk == WholeWalk(patrol.lab)
                n == Len(patrol.walked)
            IN  /\ patrol.result # None <=> walk.gone
                /\ patrol.result # None =>
                      /\ MarkedStates(patrol.result[2]) = walk.states
                      /\ {StateOf(patrol.walked[k]) : k \in 1 .. n} = walk.states
                      /\ \A j, k \in 1 .. n : patrol.walked[j] = patrol.walked[k] => j = k
                /\ patrol.result = None =>
                      /\ \E k \in 1 .. n - 1 : patrol.walked[k] = patrol.walked[n]
                      /\ \A j, k \in 1 .. n - 1 :
                            patrol.walked[j] = patrol.walked[k] => j = k)

\* run has returned None for a guard that went round obstructions back into
\* a state it had been in.
C30_Witness ==
    /\ pc = "returned"
    /\ patrol.result = None
    /\ Len(patrol.walked) >= 5
    /\ \E k \in 1 .. Len(patrol.walked) - 1 :
          patrol.walked[k][2] # patrol.walked[k + 1][2]

====
